---- MODULE Spec2Model ----
(***************************************************************************)
(* pw-ci: the series/build synchronisation engine.                         *)
(*                                                                         *)
(* The State Store (pwci/database.py), the four CI providers               *)
(* (pwci/ci_providers.py) and the CI Monitor poll cycle (pwci/monitor.py). *)
(* A provider's get_build_results is a Python generator: it runs up to a   *)
(* yield, the CI Monitor processes the yielded Outcome, and only then is   *)
(* the generator resumed.  Each of these steps is one action.  The CI      *)
(* backends and the review tracker are the environment: every request is   *)
(* answered by a response drawn from a small set.                          *)
(***************************************************************************)
EXTENDS Integers, Sequences, FiniteSets, TLC

VARIABLES
    git_builds,   \* table git_builds: sequence of rows, in rowid order
    series,       \* table series: sequence of rows, in rowid order
    pc,           \* position of the CI Monitor: idle, scan, gen, yielded, resume
    providers,    \* the configured providers, by name (cli.py:150-187)
    pidx,         \* index of the provider being scanned (monitor.py:211)
    gen,          \* local variables of the running get_build_results generator
    cur,          \* the Outcome the generator is suspended on (build_result)
    outbox,       \* the notification sent by the step just taken, if any
    notified,     \* what the notifier was invoked for so far (NotifyKey)
    call          \* bookkeeping of the running get_build_results call

vars == <<git_builds, series, pc, providers, pidx, gen, cur, outbox, notified, call>>

----------------------------------------------------------------------------
(* Bounds of the model. *)

MaxBuilds == 3
MaxSeries == 1

----------------------------------------------------------------------------
(* Values. *)

\* Python None / an unset local: the empty tuple; a set value x is <<x>>.
None == <<>>
Some(x) == <<x>>

\* SQL NULL in a TEXT column.
SqlNull == "<NULL>"

\* ci-monitor --pw-instance / --pw-project (cli.py:194-197).
pw_instance == "http://localhost:8000"
pw_project == "testproject"

\* The patch_id of an Outcome that carries none (ci_providers.py:183).
NoPatchId == 0

\* The provider lists cli.py can build, by CIProvider.name: a provider is
\* appended when its token is given (--enable-dummy for the dummy one).
ProviderConfigs == {<<"gap">>, <<"travis">>, <<"cirrus">>, <<"dummy">>}

\* CIProvider.__init__: self.sync_column = f"{name}_sync".
sync_column(name) ==
    CASE name = "gap" -> "gap_sync"
      [] name = "travis" -> "travis_sync"
      [] name = "cirrus" -> "cirrus_sync"
      [] name = "dummy" -> "dummy_sync"

\* The sync columns CREATE TABLE git_builds declares.
SchemaColumns == {"gap_sync", "obs_sync", "cirrus_sync"}

\* f"series_{series_id}"
BranchName(series_id) ==
    CASE series_id = 1000 -> "series_1000"
      [] series_id = 1001 -> "series_1001"

\* f"{self.api_base}/repos/{repo_name}/actions/runs"
ApiUrl(repo_name) == <<"api_base", "repos", repo_name, "actions", "runs">>

\* Arguments the external dispatcher passes to insert_build.  Patches are
\* inserted in the order the tracker numbered them; the table has no
\* uniqueness constraint, so an insert may be repeated.
BuildInputs ==
    { [series_id |-> 1000, patch_id |-> 100001, repo_name |-> "owner/repo",
       project |-> "testproject", instance |-> pw_instance],
      [series_id |-> 1000, patch_id |-> 100002, repo_name |-> "owner/repo",
       project |-> "otherproject", instance |-> pw_instance],
      [series_id |-> 1001, patch_id |-> 100101, repo_name |-> "owner/repo",
       project |-> "testproject", instance |-> pw_instance],
      [series_id |-> 1001, patch_id |-> 100102, repo_name |-> "dpdk/dpdk",
       project |-> "testproject", instance |-> pw_instance],
      [series_id |-> 1001, patch_id |-> 100103, repo_name |-> "dpdk/dpdk",
       project |-> "testproject", instance |-> pw_instance] }

\* Arguments of add_series and set_series_branch.
SeriesInputs ==
    { [series_id |-> 1000, project |-> "testproject"],
      [series_id |-> 1001, project |-> "testproject"] }

BranchRepos == {"owner/repo"}

----------------------------------------------------------------------------
(* State Store: pwci/database.py.  Each operation is one committed         *)
(* transaction; it is modelled as a function from table to table.          *)

insert_build(tbl, b) ==
    Append(tbl, [series_id |-> b.series_id,
                 patch_id |-> b.patch_id,
                 patchwork_instance |-> b.instance,
                 patchwork_project |-> b.project,
                 repo_name |-> b.repo_name,
                 gap_sync |-> 0, obs_sync |-> 0, cirrus_sync |-> 0])

\* ORDER BY series_id: ascending, rows of one series in rowid order.
RECURSIVE OrderBySeriesId(_)
OrderBySeriesId(rows) ==
    IF rows = <<>> THEN <<>>
    ELSE LET ids == {rows[k].series_id : k \in DOMAIN rows}
             m == CHOOSE x \in ids : \A y \in ids : x <= y
         IN  SelectSeq(rows, LAMBDA r : r.series_id = m)
                \o OrderBySeriesId(SelectSeq(rows, LAMBDA r : r.series_id # m))

\* SELECT * FROM git_builds WHERE patchwork_instance = ? AND {ci_type} = 0
\* ORDER BY series_id.  Defined for a ci_type of SchemaColumns; any other
\* ci_type is an sqlite3.OperationalError.
get_unsynced_builds(tbl, instance, ci_type) ==
    OrderBySeriesId(SelectSeq(tbl,
        LAMBDA r : r.patchwork_instance = instance /\ r[ci_type] = 0))

\* set_build_synced writing the flag's complement instead of 1.
set_build_synced_toggling(tbl, instance, patch_id, ci_type) ==
    [k \in DOMAIN tbl |->
        IF tbl[k].patchwork_instance = instance /\ tbl[k].patch_id = patch_id
        THEN [tbl[k] EXCEPT ![ci_type] = 1 - @]
        ELSE tbl[k]]

\* set_build_synced with WHERE patch_id = ? alone.
set_build_synced_any_instance(tbl, instance, patch_id, ci_type) ==
    [k \in DOMAIN tbl |->
        IF tbl[k].patch_id = patch_id
        THEN [tbl[k] EXCEPT ![ci_type] = 1]
        ELSE tbl[k]]

\* set_build_synced setting every sync column of the row.
set_build_synced_every_column(tbl, instance, patch_id, ci_type) ==
    [k \in DOMAIN tbl |->
        IF tbl[k].patchwork_instance = instance /\ tbl[k].patch_id = patch_id
        THEN [tbl[k] EXCEPT !.gap_sync = 1, !.obs_sync = 1, !.cirrus_sync = 1]
        ELSE tbl[k]]

\* UPDATE git_builds SET {ci_type} = 1
\* WHERE patchwork_instance = ? AND patch_id = ?
set_build_synced(tbl, instance, patch_id, ci_type) ==
    [k \in DOMAIN tbl |->
        IF tbl[k].patchwork_instance = instance /\ tbl[k].patch_id = patch_id
        THEN [tbl[k] EXCEPT ![ci_type] = 1]
        ELSE tbl[k]]

series_exists(tbl, instance, series_id) ==
    \E k \in DOMAIN tbl :
        tbl[k].series_id = series_id /\ tbl[k].series_instance = instance

\* add_series ignoring its completed argument.
add_series_never_completed(tbl, instance, project, series_id, completed) ==
    Append(tbl, [series_id |-> series_id,
                 series_project |-> project,
                 series_instance |-> instance,
                 series_submitted |-> 0,
                 series_completed |-> 0,
                 series_downloaded |-> 0,
                 series_branch |-> SqlNull,
                 series_repo |-> SqlNull])

add_series(tbl, instance, project, series_id, completed) ==
    Append(tbl, [series_id |-> series_id,
                 series_project |-> project,
                 series_instance |-> instance,
                 series_submitted |-> 0,
                 series_completed |-> IF completed THEN 1 ELSE 0,
                 series_downloaded |-> 0,
                 series_branch |-> SqlNull,
                 series_repo |-> SqlNull])

\* get_active_branches with WHERE ... series_branch IS NOT NULL alone.
get_active_branches_not_null(tbl, instance) ==
    SelectSeq(tbl, LAMBDA r : /\ r.series_instance = instance
                              /\ r.series_branch # SqlNull)

\* SELECT ... WHERE series_instance = ? AND series_branch IS NOT NULL
\* AND series_branch != ''
get_active_branches(tbl, instance) ==
    SelectSeq(tbl, LAMBDA r : /\ r.series_instance = instance
                              /\ r.series_branch # SqlNull
                              /\ r.series_branch # "")

set_series_branch(tbl, instance, series_id, repo, branch) ==
    [k \in DOMAIN tbl |->
        IF tbl[k].series_id = series_id /\ tbl[k].series_instance = instance
        THEN [tbl[k] EXCEPT !.series_branch = branch, !.series_repo = repo]
        ELSE tbl[k]]

\* UPDATE series SET series_branch = '' WHERE series_id = ? AND ...
clear_series_branch(tbl, instance, series_id) ==
    [k \in DOMAIN tbl |->
        IF tbl[k].series_id = series_id /\ tbl[k].series_instance = instance
        THEN [tbl[k] EXCEPT !.series_branch = ""]
        ELSE tbl[k]]

\* set_series_submitted writing series_completed = 0 along with the flag.
set_series_submitted_uncompleting(tbl, instance, series_id) ==
    [k \in DOMAIN tbl |->
        IF tbl[k].series_id = series_id /\ tbl[k].series_instance = instance
        THEN [tbl[k] EXCEPT !.series_submitted = 1, !.series_completed = 0]
        ELSE tbl[k]]

\* UPDATE series SET series_submitted = 1 WHERE series_id = ? AND ...
set_series_submitted(tbl, instance, series_id) ==
    [k \in DOMAIN tbl |->
        IF tbl[k].series_id = series_id /\ tbl[k].series_instance = instance
        THEN [tbl[k] EXCEPT !.series_submitted = 1]
        ELSE tbl[k]]

\* UPDATE series SET series_completed = 1 WHERE series_id = ? AND ...
set_series_completed(tbl, instance, series_id) ==
    [k \in DOMAIN tbl |->
        IF tbl[k].series_id = series_id /\ tbl[k].series_instance = instance
        THEN [tbl[k] EXCEPT !.series_completed = 1]
        ELSE tbl[k]]

\* get_unsubmitted_series with WHERE ... series_completed = 1 alone.
get_unsubmitted_series_completed_only(tbl, instance, project) ==
    SelectSeq(tbl, LAMBDA r : /\ r.series_instance = instance
                              /\ r.series_project = project
                              /\ r.series_completed = 1)

\* SELECT ... WHERE series_instance = ? AND series_project = ?
\* AND series_completed = 1 AND series_submitted = 0
get_unsubmitted_series(tbl, instance, project) ==
    SelectSeq(tbl, LAMBDA r : /\ r.series_instance = instance
                              /\ r.series_project = project
                              /\ r.series_completed = 1
                              /\ r.series_submitted = 0)

\* SELECT ... WHERE series_instance = ? AND series_project = ?
\* AND series_completed = 0 AND series_submitted = 0
\* AND series_downloaded = 0
get_uncompleted_series(tbl, instance, project) ==
    SelectSeq(tbl, LAMBDA r : /\ r.series_instance = instance
                              /\ r.series_project = project
                              /\ r.series_completed = 0
                              /\ r.series_submitted = 0
                              /\ r.series_downloaded = 0)

----------------------------------------------------------------------------
(* CI backends: the responses a request can get.  kind = "error" is a      *)
(* requests.RequestException (connection failure, HTTP error status).      *)

\* One workflow run of GET /repos/{repo}/actions/runs?branch=...; html_url
\* names the run, and with it the branch the run belongs to.
Run(branch, id, name, started, status, conclusion) ==
    [name |-> name, run_started_at |-> started, status |-> status,
     conclusion |-> conclusion, head_branch |-> branch,
     html_url |-> [branch |-> branch, id |-> id]]

GapJson(has_key, runs) ==
    [kind |-> "json", has_workflow_runs |-> has_key, workflow_runs |-> runs]

GapResponses(branch) ==
    { [kind |-> "error", has_workflow_runs |-> FALSE, workflow_runs |-> <<>>],
      GapJson(FALSE, <<>>),
      GapJson(TRUE, <<>>),
      GapJson(TRUE, <<Run(branch, 1, "Build", 1, "completed", "success")>>),
      GapJson(TRUE, <<Run(branch, 1, "Build", 1, "in_progress", "null")>>),
      GapJson(TRUE, <<Run(branch, 1, "Build", 1, "completed", "cancelled")>>),
      GapJson(TRUE, <<Run(branch, 1, "Build", 1, "completed", "failure"),
                      Run(branch, 2, "Lint", 1, "completed", "success")>>),
      GapJson(TRUE, <<Run(branch, 1, "Build", 1, "completed", "success"),
                      Run(branch, 2, "Lint", 1, "in_progress", "null")>>),
      GapJson(TRUE, <<Run(branch, 1, "Build", 1, "completed", "failure"),
                      Run(branch, 2, "Build", 2, "completed", "success")>>),
      GapJson(TRUE, <<Run(branch, 2, "Build", 2, "in_progress", "null"),
                      Run(branch, 1, "Build", 1, "completed", "success")>>) }

\* No request is sent: the cached all_runs is used.
NoRequest == [kind |-> "none", has_workflow_runs |-> FALSE, workflow_runs |-> <<>>]

\* One build of GET /repos/{repo}/builds?branch.name=... (Travis).
TravisBuild(id, state) == [id |-> id, state |-> state]

TravisResponses ==
    { [kind |-> "error", builds |-> <<>>],
      [kind |-> "json", builds |-> <<>>],
      [kind |-> "json", builds |-> <<TravisBuild(1, "created")>>],
      [kind |-> "json", builds |-> <<TravisBuild(1, "started")>>],
      [kind |-> "json", builds |-> <<TravisBuild(1, "passed")>>],
      [kind |-> "json", builds |-> <<TravisBuild(1, "failed")>>],
      [kind |-> "json", builds |-> <<TravisBuild(1, "errored")>>],
      [kind |-> "json", builds |-> <<TravisBuild(1, "canceled")>>],
      [kind |-> "json", builds |-> <<TravisBuild(2, "canceled"),
                                     TravisBuild(1, "passed")>>],
      [kind |-> "json", builds |-> <<TravisBuild(2, "created"),
                                     TravisBuild(1, "failed")>>] }

\* One edge node of the Cirrus GraphQL answer; tasks holds the task statuses.
CirrusNode(id, status, tasks) == [id |-> id, status |-> status, tasks |-> tasks]

CirrusResponses ==
    { [kind |-> "error", builds |-> <<>>],
      [kind |-> "json", builds |-> <<>>],
      [kind |-> "json", builds |-> <<CirrusNode(1, "EXECUTING", <<"EXECUTING">>)>>],
      [kind |-> "json",
       builds |-> <<CirrusNode(1, "COMPLETED", <<"COMPLETED", "COMPLETED">>)>>],
      [kind |-> "json",
       builds |-> <<CirrusNode(1, "COMPLETED", <<"COMPLETED", "FAILED">>)>>],
      [kind |-> "json",
       builds |-> <<CirrusNode(1, "FAILED", <<"COMPLETED", "FAILED">>)>>],
      [kind |-> "json", builds |-> <<CirrusNode(1, "ABORTED", <<"ABORTED">>)>>],
      [kind |-> "json",
       builds |-> <<CirrusNode(2, "EXECUTING", <<"EXECUTING">>),
                    CirrusNode(1, "COMPLETED", <<"COMPLETED">>)>>] }

----------------------------------------------------------------------------
(* Outcomes. *)

Outcome(series_id, patch_id, result, build_url, repo_name, test_name) ==
    [series_id |-> series_id, patch_id |-> patch_id, result |-> result,
     build_url |-> build_url, repo_name |-> repo_name, test_name |-> test_name]

\* The (series_id, patch_id) of a build row or of an Outcome.
BuildKey(r) == <<r.series_id, r.patch_id>>

\* Workflow names in the order workflow_groups first sees them.
RECURSIVE WorkflowNames(_)
WorkflowNames(runs) ==
    IF runs = <<>> THEN <<>>
    ELSE <<runs[1].name>>
            \o WorkflowNames(SelectSeq(Tail(runs),
                                       LAMBDA r : r.name # runs[1].name))

\* runs[0] of a group after sort(key=run_started_at, reverse=True): the sort
\* is stable, so among the latest-started runs the first of the response.
LatestRun(runs, name) ==
    LET group == SelectSeq(runs, LAMBDA r : r.name = name)
        latest == CHOOSE t \in {group[k].run_started_at : k \in DOMAIN group} :
                     \A k \in DOMAIN group : group[k].run_started_at <= t
    IN  SelectSeq(group, LAMBDA r : r.run_started_at = latest)[1]

\* Map GitHub conclusion to our result format.
GapResult(conclusion) == IF conclusion = "success" THEN "passed" ELSE "failed"

\* The Outcomes the loop over workflow_groups yields for one build, in order.
RECURSIVE GapOutcomesOf(_, _, _)
GapOutcomesOf(build, runs, names) ==
    IF names = <<>> THEN <<>>
    ELSE LET latest_run == LatestRun(runs, names[1])
             rest == GapOutcomesOf(build, runs, Tail(names))
         IN  IF latest_run.status # "completed" THEN rest
             ELSE <<Outcome(build.series_id, build.patch_id,
                            GapResult(latest_run.conclusion),
                            latest_run.html_url, build.repo_name,
                            names[1])>> \o rest

GapOutcomes(build, runs) == GapOutcomesOf(build, runs, WorkflowNames(runs))

\* Index of the first Travis build that is reported, 0 if there is none.
TravisFirstReported(builds) ==
    LET hits == {k \in DOMAIN builds :
                    /\ builds[k].state \notin {"created", "canceled"}
                    /\ builds[k].state \in {"failed", "passed", "errored"}}
    IN  IF hits = {} THEN 0 ELSE CHOOSE k \in hits : \A h \in hits : k <= h

TravisResult(state) == IF state = "errored" THEN "failed" ELSE state

\* Index of the first Cirrus node with status COMPLETED, 0 if there is none.
CirrusFirstCompleted(builds_data) ==
    LET hits == {k \in DOMAIN builds_data : builds_data[k].status = "COMPLETED"}
    IN  IF hits = {} THEN 0 ELSE CHOOSE k \in hits : \A h \in hits : k <= h

\* CirrusResult without the look at the tasks.
CirrusResultIgnoringTasks(node) == "passed"

CirrusResult(node) ==
    IF \E t \in DOMAIN node.tasks : node.tasks[t] = "FAILED"
    THEN "failed" ELSE "passed"

\* len(build['repo_name'].split('/')) == 2
HasOwnerAndName(repo_name) == repo_name \in {"owner/repo", "dpdk/dpdk"}

----------------------------------------------------------------------------
(* Initial state: an empty store, no poll cycle running. *)

\* The locals of a get_build_results generator before its first statement.
\* unsynced is unsynced_builds (active_branches for Travis), i the index of
\* the row the for loop is at; outs and j unroll the loop over
\* workflow_groups: outs holds the Outcomes that loop yields for the current
\* build, j the one it is suspended on.
GenInit ==
    [unsynced |-> <<>>, i |-> 1,
     prev_series |-> None, prev_url |-> None, all_runs |-> None,
     outs |-> <<>>, j |-> 0,
     builds |-> None, builds_data |-> None]

\* What one get_build_results call has done so far: synced0 the builds whose
\* flag for the provider was set when the call began, yielded the builds an
\* Outcome was yielded for, requested and failed the series a backend request
\* was sent for and raised for, dropped the builds with an Outcome that
\* process_build_result gave up on without invoking the notifier, completed
\* the builds the Cirrus backend has listed a COMPLETED build for.
CallInit ==
    [synced0 |-> {}, yielded |-> {}, requested |-> {}, failed |-> {},
     dropped |-> {}, completed |-> {}]

Init ==
    /\ git_builds = <<>>
    /\ series = <<>>
    /\ pc = "idle"
    /\ providers \in ProviderConfigs
    /\ pidx = 1
    /\ gen = GenInit
    /\ cur = None
    /\ outbox = None
    /\ notified = {}
    /\ call = CallInit

----------------------------------------------------------------------------
(* The external dispatcher, between poll cycles. *)

InsertBuild ==
    /\ pc = "idle"
    /\ Len(git_builds) < MaxBuilds
    /\ \E b \in BuildInputs :
          /\ \A k \in DOMAIN git_builds : git_builds[k].patch_id <= b.patch_id
          /\ git_builds' = insert_build(git_builds, b)
    /\ outbox' = None
    /\ UNCHANGED <<series, pc, providers, pidx, gen, cur, notified, call>>

AddSeries ==
    /\ pc = "idle"
    /\ Len(series) < MaxSeries
    /\ \E s \in SeriesInputs :
          /\ ~series_exists(series, pw_instance, s.series_id)
          /\ series' = add_series(series, pw_instance, s.project, s.series_id,
                                  FALSE)
    /\ outbox' = None
    /\ UNCHANGED <<git_builds, pc, providers, pidx, gen, cur, notified, call>>

SetSeriesBranch ==
    /\ pc = "idle"
    /\ \E k \in DOMAIN series, repo \in BranchRepos :
          series' = set_series_branch(series, pw_instance, series[k].series_id,
                                      repo, BranchName(series[k].series_id))
    /\ outbox' = None
    /\ UNCHANGED <<git_builds, pc, providers, pidx, gen, cur, notified, call>>

----------------------------------------------------------------------------
(* CIMonitor.monitor_ci_systems: one poll cycle. *)

ProviderName == providers[pidx]

StartCycle ==
    /\ pc = "idle"
    /\ pc' = "scan"
    /\ pidx' = 1
    /\ outbox' = None
    /\ UNCHANGED <<git_builds, series, providers, gen, cur, notified, call>>

EndCycle ==
    /\ pc = "scan"
    /\ pidx > Len(providers)
    /\ pc' = "idle"
    /\ pidx' = 1
    /\ outbox' = None
    /\ UNCHANGED <<git_builds, series, providers, gen, cur, notified, call>>

\* The generator is left and monitor_ci_systems is left with it.
NextProviderLeavingCycle ==
    /\ pc' = "idle"
    /\ pidx' = 1
    /\ gen' = GenInit
    /\ cur' = None
    /\ call' = CallInit

\* The generator is left (StopIteration, or an exception caught at
\* monitor.py:220): the for loop over providers goes on.
NextProvider ==
    /\ pc' = "scan"
    /\ pidx' = pidx + 1
    /\ gen' = GenInit
    /\ cur' = None
    /\ call' = CallInit

\* The first next() on provider.get_build_results(): the statements before
\* the for loop.  A sync column the schema lacks makes get_unsynced_builds
\* raise sqlite3.OperationalError.
ScanProvider ==
    /\ pc = "scan"
    /\ pidx <= Len(providers)
    /\ outbox' = None
    /\ UNCHANGED <<git_builds, series, providers, notified>>
    /\ IF ProviderName = "travis"
       THEN /\ gen' = [GenInit EXCEPT
                          !.unsynced = get_active_branches(series, pw_instance)]
            /\ call' = CallInit
            /\ pc' = "gen"
            /\ UNCHANGED <<pidx, cur>>
       ELSE IF sync_column(ProviderName) \notin SchemaColumns
       THEN NextProvider
       ELSE /\ gen' = [GenInit EXCEPT
                          !.unsynced = get_unsynced_builds(git_builds, pw_instance,
                                            sync_column(ProviderName))]
            /\ call' = [CallInit EXCEPT
                          !.synced0 =
                              {BuildKey(git_builds[k]) : k \in
                                  {x \in DOMAIN git_builds :
                                      git_builds[x][sync_column(ProviderName)] = 1}}]
            /\ pc' = "gen"
            /\ UNCHANGED <<pidx, cur>>

\* for ... in ...: the loop is exhausted, the generator returns.
GeneratorDone ==
    /\ pc = "gen"
    /\ gen.i > Len(gen.unsynced)
    /\ NextProvider
    /\ outbox' = None
    /\ UNCHANGED <<git_builds, series, providers, notified>>

\* continue / break / end of the loop body: on to the next row.
Continue(g, c) ==
    /\ gen' = [g EXCEPT !.i = @ + 1, !.outs = <<>>, !.j = 0,
                        !.builds = None, !.builds_data = None]
    /\ call' = c
    /\ pc' = "gen"
    /\ cur' = None
    /\ UNCHANGED <<providers, pidx, notified>>

\* yield: the generator is suspended, the CI Monitor holds the Outcome.
Yield(g, c, o) ==
    /\ gen' = g
    /\ call' = [c EXCEPT !.yielded = @ \cup {BuildKey(o)}]
    /\ pc' = "yielded"
    /\ cur' = Some(o)
    /\ UNCHANGED <<providers, pidx, notified>>

\* The call record after a backend request for series_id.
Requested(c, series_id, response) ==
    [c EXCEPT !.requested = @ \cup {series_id},
              !.failed = IF response.kind = "error"
                         THEN @ \cup {series_id} ELSE @]

\* The project test left out: nothing is filtered.
FilteredOutNever(project) == FALSE

\* pw_project and pw_project != project
FilteredOut(project) == pw_project # "" /\ pw_project # project

----------------------------------------------------------------------------
(* GitHubActionsProvider.get_build_results. *)

\* One pass of the for loop over unsynced_builds, up to its first yield or
\* to its end.
GapBuild ==
    LET build == gen.unsynced[gen.i]
        series_id == build.series_id
        new_series == Some(series_id) # gen.prev_series
        api_url == ApiUrl(build.repo_name)
        fetch == new_series /\ Some(api_url) # gen.prev_url
        g1 == [gen EXCEPT
                  !.prev_series = IF new_series THEN Some(series_id) ELSE @,
                  !.prev_url = IF fetch THEN Some(api_url) ELSE @]
    IN  IF FilteredOut(build.patchwork_project)
        THEN Continue(gen, call) /\ UNCHANGED <<git_builds, series>>
        ELSE \E response \in
                    (IF fetch THEN GapResponses(BranchName(series_id))
                              ELSE {NoRequest}) :
             LET c1 == IF fetch THEN Requested(call, series_id, response)
                                ELSE call
                 g2 == [g1 EXCEPT
                           !.all_runs = IF fetch /\ response.kind # "error"
                                        THEN Some(response) ELSE @]
                 workflow_runs == g2.all_runs[1].workflow_runs
                 outs == GapOutcomes(build, workflow_runs)
             IN  IF fetch /\ response.kind = "error"
                 THEN Continue(g2, c1) /\ UNCHANGED <<git_builds, series>>
                 ELSE IF g2.all_runs = None
                 THEN Continue(g2, c1) /\ UNCHANGED <<git_builds, series>>
                 ELSE IF ~g2.all_runs[1].has_workflow_runs
                 THEN Continue(g2, c1) /\ UNCHANGED <<git_builds, series>>
                 ELSE IF workflow_runs = <<>>
                 THEN Continue(g2, c1) /\ UNCHANGED <<git_builds, series>>
                 ELSE IF outs = <<>>
                 THEN /\ git_builds' = set_build_synced(git_builds, pw_instance,
                                           build.patch_id, sync_column("gap"))
                      /\ Continue(g2, c1)
                      /\ UNCHANGED series
                 ELSE /\ Yield([g2 EXCEPT !.outs = outs, !.j = 1], c1, outs[1])
                      /\ UNCHANGED <<git_builds, series>>

\* next() after a yield: the loop over workflow_groups goes on; after its
\* last item the patch is marked synced.
GapResume ==
    IF gen.j < Len(gen.outs)
    THEN /\ Yield([gen EXCEPT !.j = @ + 1], call, gen.outs[gen.j + 1])
         /\ UNCHANGED <<git_builds, series>>
    ELSE /\ git_builds' = set_build_synced(git_builds, pw_instance,
                              gen.unsynced[gen.i].patch_id, sync_column("gap"))
         /\ Continue(gen, call)
         /\ UNCHANGED series

----------------------------------------------------------------------------
(* TravisProvider.get_build_results. *)

TravisBranch ==
    LET row == gen.unsynced[gen.i]
    IN  IF FilteredOut(row.series_project)
        THEN Continue(gen, call) /\ UNCHANGED <<git_builds, series>>
        ELSE \E response \in TravisResponses :
             LET c1 == Requested(call, row.series_id, response)
                 g1 == [gen EXCEPT !.builds = IF response.kind = "error"
                                              THEN @ ELSE Some(response.builds)]
                 k == TravisFirstReported(response.builds)
             IN  /\ UNCHANGED <<git_builds, series>>
                 /\ IF response.kind = "error"
                    THEN Continue(g1, c1)
                    ELSE IF k = 0
                    THEN Continue(g1, c1)
                    ELSE Yield(g1, c1,
                               Outcome(row.series_id, NoPatchId,
                                       TravisResult(response.builds[k].state),
                                       [branch |-> row.series_branch,
                                        id |-> response.builds[k].id],
                                       row.series_repo, ""))

\* next() after the yield: clear the branch since build is complete; break.
TravisResume ==
    /\ series' = clear_series_branch(series, pw_instance,
                                     gen.unsynced[gen.i].series_id)
    /\ Continue(gen, call)
    /\ UNCHANGED git_builds

----------------------------------------------------------------------------
(* CirrusProvider.get_build_results. *)

CirrusBuild ==
    LET build == gen.unsynced[gen.i]
    IN  IF FilteredOut(build.patchwork_project)
        THEN Continue(gen, call) /\ UNCHANGED <<git_builds, series>>
        ELSE IF ~HasOwnerAndName(build.repo_name)
        THEN Continue(gen, call) /\ UNCHANGED <<git_builds, series>>
        ELSE \E response \in CirrusResponses :
             LET c0 == Requested(call, build.series_id, response)
                 c1 == [c0 EXCEPT !.completed =
                           IF \E n \in DOMAIN response.builds :
                                 response.builds[n].status = "COMPLETED"
                           THEN @ \cup {BuildKey(build)} ELSE @]
                 g1 == [gen EXCEPT !.builds_data = IF response.kind = "error"
                                                   THEN @ ELSE Some(response.builds)]
                 k == CirrusFirstCompleted(response.builds)
             IN  /\ UNCHANGED <<git_builds, series>>
                 /\ IF response.kind = "error"
                    THEN Continue(g1, c1)
                    ELSE IF k = 0
                    THEN Continue(g1, c1)
                    ELSE Yield(g1, c1,
                               Outcome(build.series_id, build.patch_id,
                                       CirrusResult(response.builds[k]),
                                       [branch |-> BranchName(build.series_id),
                                        id |-> response.builds[k].id],
                                       build.repo_name, "cirrus-ci"))

\* next() after the yield: set_build_synced; break.
CirrusResume ==
    /\ git_builds' = set_build_synced(git_builds, pw_instance,
                          gen.unsynced[gen.i].patch_id, sync_column("cirrus"))
    /\ Continue(gen, call)
    /\ UNCHANGED series

----------------------------------------------------------------------------
(* DummyProvider.get_build_results. *)

DummyBuild ==
    LET build == gen.unsynced[gen.i]
    IN  /\ UNCHANGED <<git_builds, series>>
        /\ IF FilteredOut(build.patchwork_project)
           THEN Continue(gen, call)
           ELSE Yield(gen, call,
                      Outcome(build.series_id, build.patch_id, "passed",
                              [branch |-> "dummy-build", id |-> 0],
                              build.repo_name, "dummy-test"))

DummyResume ==
    /\ git_builds' = set_build_synced(git_builds, pw_instance,
                          gen.unsynced[gen.i].patch_id, sync_column("dummy"))
    /\ Continue(gen, call)
    /\ UNCHANGED series

----------------------------------------------------------------------------
(* The generator steps, by the provider being scanned. *)

\* next(): the for loop of the running generator takes its next row.
ProviderStep ==
    /\ pc = "gen"
    /\ gen.i <= Len(gen.unsynced)
    /\ outbox' = None
    /\ CASE ProviderName = "gap" -> GapBuild
         [] ProviderName = "travis" -> TravisBranch
         [] ProviderName = "cirrus" -> CirrusBuild
         [] ProviderName = "dummy" -> DummyBuild

\* next(): the generator goes on after the yield it was suspended on.
ProviderResume ==
    /\ pc = "resume"
    /\ outbox' = None
    /\ CASE ProviderName = "gap" -> GapResume
         [] ProviderName = "travis" -> TravisResume
         [] ProviderName = "cirrus" -> CirrusResume
         [] ProviderName = "dummy" -> DummyResume

----------------------------------------------------------------------------
(* CIMonitor.process_build_result, on the Outcome just yielded. *)

\* How one call ends:
\*   no_series   get_series_data returned None: return (monitor.py:145-148)
\*   no_patch    get_patch_data returned None: return (monitor.py:150-153)
\*   raised      an exception before the email is sent, e.g. the OSError of a
\*               missing log script, which get_log_output does not catch
\*               (monitor.py:93-101), or a patch without 'submitter'
\*               (monitor.py:183)
\*   sent        send_email_via_git was called and the call returned
\*   sent_raised send_email_via_git was called, then the post-result step
\*               raised (post_result set, monitor.py:187-202: the OSError of
\*               a missing script is not caught at monitor.py:126-131)
ProcessEndings == {"no_series", "no_patch", "raised", "sent", "sent_raised"}

\* What a result email is about: the provider, the patch and the test.
NotifyKey(o) == <<ProviderName, o.series_id, o.patch_id, o.test_name>>

ProcessBuildResult ==
    /\ pc = "yielded"
    /\ \E how \in ProcessEndings :
          /\ IF how \in {"sent", "sent_raised"}
             THEN /\ outbox' = Some(NotifyKey(cur[1]))
                  /\ notified' = notified \cup {NotifyKey(cur[1])}
             ELSE /\ outbox' = None
                  /\ UNCHANGED notified
          /\ IF how \in {"raised", "sent_raised"}
             THEN NextProvider
             ELSE /\ pc' = "resume"
                  /\ call' = IF how \in {"no_series", "no_patch"}
                             THEN [call EXCEPT
                                      !.dropped = @ \cup {BuildKey(cur[1])}]
                             ELSE call
                  /\ UNCHANGED <<pidx, gen, cur>>
    /\ UNCHANGED <<git_builds, series, providers>>

----------------------------------------------------------------------------

Next ==
    \/ InsertBuild
    \/ AddSeries
    \/ SetSeriesBranch
    \/ StartCycle
    \/ ScanProvider
    \/ ProviderStep
    \/ ProcessBuildResult
    \/ ProviderResume
    \/ GeneratorDone
    \/ EndCycle

Spec == Init /\ [][Next]_vars

----------------------------------------------------------------------------
(* Properties. *)

\* A get_build_results call is under way.
InCall == pc \in {"gen", "yielded", "resume"}

\* The provider being scanned keeps a sync flag in git_builds.
HasSyncColumn == sync_column(ProviderName) \in SchemaColumns

\* The rows whose flag for the provider being scanned was set in this call.
SyncedInCall ==
    {k \in DOMAIN git_builds :
        /\ git_builds[k][sync_column(ProviderName)] = 1
        /\ BuildKey(git_builds[k]) \notin call.synced0}

\* The store holds one row per patch.
UniquePatches ==
    \A i, j \in DOMAIN git_builds :
        git_builds[i].patch_id = git_builds[j].patch_id => i = j

\* C1: across poll cycles, failed ones included, the notifier is invoked at
\* most once per (provider, patch_id).  Read in the claim's favour: the
\* emails of the different workflows of a patch count as one notification,
\* and the store holds one row per patch; then a step that sends a result
\* email sends one that no earlier step has sent.
C1_NotifiedAtMostOnce ==
    [][(outbox' # None /\ outbox'[1][3] # NoPatchId /\ UniquePatches')
          => outbox'[1] \notin notified]_vars

\* C2: whenever a provider has yielded an Outcome for build B, B is no
\* longer among get_unsynced_builds(instance, the provider's sync column)
\* right after that yield, while the CI Monitor holds the Outcome.
C2_YieldedBuildIsSynced ==
    (pc = "yielded" /\ HasSyncColumn) =>
        LET unsynced == get_unsynced_builds(git_builds, pw_instance,
                                            sync_column(ProviderName))
        IN  \A k \in DOMAIN unsynced : BuildKey(unsynced[k]) # BuildKey(cur[1])

\* C3: a build whose sync flag for the provider was set before a
\* get_build_results call began gets no Outcome with its
\* (series_id, patch_id) from that call, whatever the backend answers.
C3_SyncedBuildNotYieldedAgain ==
    pc = "yielded" => BuildKey(cur[1]) \notin call.synced0

\* C4: in a GitHub Actions or Cirrus call a sync flag is set only for a
\* build an Outcome was yielded for in that call; a build whose runs are
\* all in flight yields nothing and stays unsynced.
C4_SyncedOnlyWhenYielded ==
    (InCall /\ HasSyncColumn) =>
        \A k \in SyncedInCall : BuildKey(git_builds[k]) \in call.yielded

\* C5: a build's sync flag is set only after every Outcome yielded for it in
\* the poll cycle was handed to the notifier; a build with an Outcome that
\* process_build_result gave up on stays unsynced, to be retried.
C5_SyncedOnlyAfterNotified ==
    (InCall /\ HasSyncColumn) =>
        \A k \in SyncedInCall : BuildKey(git_builds[k]) \notin call.dropped

\* C6: once the backend request for a series has raised a network error in
\* a call (GitHub Actions and Travis send one request per series), no
\* Outcome is yielded for a build of that series in that call and no sync
\* flag of such a build is set.  Stores with one row per patch are enough
\* to tell.
C6_FailedSeriesYieldsNothing ==
    (InCall /\ UniquePatches /\ ProviderName \in {"gap", "travis"}) =>
        /\ pc = "yielded" => cur[1].series_id \notin call.failed
        /\ HasSyncColumn =>
              \A k \in SyncedInCall : git_builds[k].series_id \notin call.failed

\* C7: when the request for series X raised a network error, a later
\* unsynced series Y of the same call is still answered: the backend is
\* asked for Y's branch by the time Y's builds have been gone through, and
\* nothing is yielded for X.
C7_LaterSeriesStillAnswered ==
    (InCall /\ ProviderName = "gap") =>
        LET done == IF pc = "gen" THEN gen.i - 1 ELSE gen.i
        IN  /\ pc = "yielded" => cur[1].series_id \notin call.failed
            /\ \A k \in 1..done :
                  LET y == gen.unsynced[k].series_id
                  IN  (/\ ~FilteredOut(gen.unsynced[k].patchwork_project)
                       /\ y \notin call.failed
                       /\ \E x \in call.failed : x < y)
                      => y \in call.requested

\* C8: every Outcome of the GitHub Actions provider for a build of series S
\* reports a run of branch series_S, and a build is marked synced only with
\* runs that were requested for its own series.
C8_OutcomeFromOwnBranch ==
    (InCall /\ ProviderName = "gap") =>
        /\ pc = "yielded" =>
              cur[1].build_url.branch = BranchName(cur[1].series_id)
        /\ \A k \in SyncedInCall : git_builds[k].series_id \in call.requested

\* C9: for a build gone through with workflow runs of k distinct names, the
\* GitHub Actions provider yields exactly one Outcome per name, named after
\* the workflow, with the result of that name's latest-started run.
C9_OneOutcomePerWorkflow ==
    (pc \in {"yielded", "resume"} /\ ProviderName = "gap") =>
        LET runs == gen.all_runs[1].workflow_runs
            names == WorkflowNames(runs)
        IN  /\ Len(gen.outs) = Len(names)
            /\ \A n \in DOMAIN gen.outs :
                  /\ n <= Len(names)
                  /\ gen.outs[n].test_name = names[n]
                  /\ gen.outs[n].series_id = gen.unsynced[gen.i].series_id
                  /\ gen.outs[n].result
                        = GapResult(LatestRun(runs, names[n]).conclusion)

\* The first build of a Travis answer that has ended, 0 if none has.
TravisFirstEnded(builds) ==
    LET hits == {k \in DOMAIN builds :
                    builds[k].state \in {"passed", "failed", "errored",
                                         "canceled"}}
    IN  IF hits = {} THEN 0 ELSE CHOOSE k \in hits : \A h \in hits : k <= h

\* The first node of a Cirrus answer that has ended, 0 if none has.
CirrusFirstEnded(builds_data) ==
    LET hits == {k \in DOMAIN builds_data :
                    builds_data[k].status \in {"COMPLETED", "FAILED",
                                               "ABORTED", "ERRORED"}}
    IN  IF hits = {} THEN 0 ELSE CHOOSE k \in hits : \A h \in hits : k <= h

\* C10: every Outcome has result passed or failed; it is passed only for a
\* backend state of success, and a unit that ended in any other state is
\* reported as failed, not skipped: the Outcome of a Travis or Cirrus
\* answer is that of its first ended build.
C10_NonSuccessTerminalIsFailed ==
    pc = "yielded" =>
        /\ cur[1].result \in {"passed", "failed"}
        /\ ProviderName = "gap" =>
              \A k \in DOMAIN gen.all_runs[1].workflow_runs :
                  LET run == gen.all_runs[1].workflow_runs[k]
                  IN  (run.html_url = cur[1].build_url
                         /\ cur[1].result = "passed")
                      => run.conclusion = "success"
        /\ ProviderName = "travis" =>
              LET k == TravisFirstEnded(gen.builds[1])
              IN  /\ k # 0
                  /\ cur[1].build_url.id = gen.builds[1][k].id
                  /\ cur[1].result = IF gen.builds[1][k].state = "passed"
                                     THEN "passed" ELSE "failed"
        /\ ProviderName = "cirrus" =>
              LET k == CirrusFirstEnded(gen.builds_data[1])
                  node == gen.builds_data[1][k]
              IN  /\ k # 0
                  /\ cur[1].build_url.id = node.id
                  /\ cur[1].result =
                        IF node.status = "COMPLETED"
                           /\ \A t \in DOMAIN node.tasks :
                                 node.tasks[t] # "FAILED"
                        THEN "passed" ELSE "failed"

\* A series has an active branch: get_active_branches returns it.
ActiveBranch(tbl, series_id) ==
    \E k \in DOMAIN get_active_branches(tbl, pw_instance) :
        get_active_branches(tbl, pw_instance)[k].series_id = series_id

\* C11: the Travis provider yields an Outcome for the first build of the
\* answer whose state is failed, passed or errored (errored as failed), and
\* the series it has yielded for have no active branch any more when the
\* call is over, so that a later call yields nothing for them.
C11_TravisYieldClearsBranch ==
    [][/\ (pc' = "yielded" /\ ProviderName = "travis") =>
             LET k == TravisFirstReported(gen'.builds[1])
             IN  /\ k # 0
                 /\ cur'[1].build_url.id = gen'.builds[1][k].id
                 /\ cur'[1].result =
                       IF gen'.builds[1][k].state = "passed"
                       THEN "passed" ELSE "failed"
       /\ (InCall /\ ProviderName = "travis" /\ pc' = "scan") =>
             \A key \in call.yielded : ~ActiveBranch(series', key[1])]_vars

C13_DummyYieldsForEveryBuild ==
    [][(/\ pc = "scan"
        /\ pidx <= Len(providers)
        /\ ProviderName = "dummy"
        /\ \E k \in DOMAIN git_builds :
              /\ git_builds[k].patchwork_instance = pw_instance
              /\ ~FilteredOut(git_builds[k].patchwork_project))
       => (pc' = "gen" /\ Len(gen'.unsynced) > 0)]_vars

\* A TEXT column holds nothing: NULL or the empty string.
EmptyText(v) == v = SqlNull \/ v = ""

\* C16: in every reachable state each series row has series_branch and
\* series_repo either both empty or both set, also after a branch that was
\* set with set_series_branch has been released.
C16_BranchAndRepoTogether ==
    \A k \in DOMAIN series :
        EmptyText(series[k].series_branch) <=> EmptyText(series[k].series_repo)

----------------------------------------------------------------------------
(* PatchworkMonitor (pwci/patchwork.py): the passes of run_full_check, each *)
(* a function from the series table and the tracker's answers to the series *)
(* table.                                                                   *)

\* What GET /api/series/{id}/ gives a pass: a requests.RequestException, or
\* the series with received_all true ("all") or false ("part").
TrackerAnswers == {"error", "all", "part"}

\* The state of the last patch of a series as check_superseded_series sees
\* it: a RequestException, a series without patches, or the patch state.
PatchStates ==
    {"error", "no_patches", "new", "superseded", "rejected", "accepted",
     "changes-requested", "not-applicable"}

\* patch_state in ['superseded'] alone.
FinalPatchStateSupersededOnly(state) == state = "superseded"

\* patch_state in ['superseded', 'rejected', 'accepted',
\*                 'changes-requested', 'not-applicable']
FinalPatchState(state) ==
    state \in {"superseded", "rejected", "accepted", "changes-requested",
               "not-applicable"}

\* emit_series without the series_exists test.
emit_series_unconditional(tbl, series_id, all_received) ==
    add_series(tbl, pw_instance, pw_project, series_id, all_received)

\* emit_series: record the series unless series_exists.
emit_series(tbl, series_id, all_received) ==
    IF ~series_exists(tbl, pw_instance, series_id)
    THEN add_series(tbl, pw_instance, pw_project, series_id, all_received)
    ELSE tbl

\* check_new_series: the loop over the events; events[n] holds the series id
\* of the event and the tracker's answer to get_series.
RECURSIVE check_new_series(_, _)
check_new_series(tbl, events) ==
    IF events = <<>> THEN tbl
    ELSE LET event == Head(events)
             t1 == IF event.answer = "error" THEN tbl
                   ELSE emit_series(tbl, event.series_id, event.answer = "all")
         IN  check_new_series(t1, Tail(events))

\* The loop of check_completed_series leaving at the first RequestException.
RECURSIVE CompletedLoopLeavingOnError(_, _, _)
CompletedLoopLeavingOnError(tbl, uncompleted, answers) ==
    IF uncompleted = <<>> THEN tbl
    ELSE LET series_id == Head(uncompleted).series_id
         IN  IF answers[series_id] = "error" THEN tbl
             ELSE CompletedLoopLeavingOnError(
                      IF answers[series_id] = "all"
                      THEN set_series_completed(tbl, pw_instance, series_id)
                      ELSE tbl,
                      Tail(uncompleted), answers)

\* The loop of check_completed_series over the rows of uncompleted.
RECURSIVE CompletedLoop(_, _, _)
CompletedLoop(tbl, uncompleted, answers) ==
    IF uncompleted = <<>> THEN tbl
    ELSE LET series_id == Head(uncompleted).series_id
             t1 == IF answers[series_id] = "all"
                   THEN set_series_completed(tbl, pw_instance, series_id)
                   ELSE tbl
         IN  CompletedLoop(t1, Tail(uncompleted), answers)

check_completed_series(tbl, answers) ==
    CompletedLoop(tbl, get_uncompleted_series(tbl, pw_instance, pw_project),
                  answers)

\* The loop of check_superseded_series over the rows of active_branches.
RECURSIVE SupersededLoop(_, _, _)
SupersededLoop(tbl, active_branches, states) ==
    IF active_branches = <<>> THEN tbl
    ELSE LET series_id == Head(active_branches).series_id
             t1 == IF FinalPatchState(states[series_id])
                   THEN clear_series_branch(tbl, pw_instance, series_id)
                   ELSE tbl
         IN  SupersededLoop(t1, Tail(active_branches), states)

check_superseded_series(tbl, states) ==
    SupersededLoop(tbl, get_active_branches(tbl, pw_instance), states)

----------------------------------------------------------------------------
(* The State Store under its callers: the store operations with any          *)
(* argument, and the passes of the Monitor.  Only git_builds and series      *)
(* change; the CI Monitor does not run (pc = "store").                       *)

MaxStoreBuilds == 2
MaxStoreSeries == 2
MaxEvents == 2

other_instance == "https://patchwork.example.com"
Instances == {pw_instance, other_instance}

StoreBuildInputs ==
    { [series_id |-> 1000, patch_id |-> 100001, repo_name |-> "owner/repo",
       project |-> "testproject", instance |-> pw_instance],
      [series_id |-> 1000, patch_id |-> 100002, repo_name |-> "owner/repo",
       project |-> "testproject", instance |-> pw_instance],
      [series_id |-> 1000, patch_id |-> 100001, repo_name |-> "owner/repo",
       project |-> "testproject", instance |-> other_instance] }

StorePatchIds == {b.patch_id : b \in StoreBuildInputs}
StoreSeriesIds == {1000, 1001}

\* The series-created events of one check_new_series pass, each with the
\* tracker's answer to get_series.
Events == [series_id : StoreSeriesIds, answer : TrackerAnswers]
EventBatches ==
    UNION {[1..n -> Events] : n \in 0..MaxEvents}

\* The series a pass asks the tracker about: those of the rows it loops over.
AskedIds(rows) == {rows[n].series_id : n \in DOMAIN rows}

StoreFrame == <<pc, providers, pidx, gen, cur, outbox, notified, call>>

StoreInit ==
    /\ git_builds = <<>>
    /\ series = <<>>
    /\ pc = "store"
    /\ providers = <<"gap">>
    /\ pidx = 1
    /\ gen = GenInit
    /\ cur = None
    /\ outbox = None
    /\ notified = {}
    /\ call = CallInit

StoreInsertBuild ==
    /\ pc = "store"
    /\ Len(git_builds) < MaxStoreBuilds
    /\ \E b \in StoreBuildInputs : git_builds' = insert_build(git_builds, b)
    /\ UNCHANGED <<series, StoreFrame>>

StoreSetBuildSynced ==
    /\ pc = "store"
    /\ \E instance \in Instances, patch_id \in StorePatchIds,
          ci_type \in SchemaColumns :
          git_builds' = set_build_synced(git_builds, instance, patch_id, ci_type)
    /\ UNCHANGED <<series, StoreFrame>>

CheckNewSeries ==
    /\ pc = "store"
    /\ \E events \in EventBatches :
          /\ Len(series) + Len(events) <= MaxStoreSeries
          /\ series' = check_new_series(series, events)
    /\ UNCHANGED <<git_builds, StoreFrame>>

CheckCompletedSeries ==
    /\ pc = "store"
    /\ \E answers \in [AskedIds(get_uncompleted_series(series, pw_instance,
                                                        pw_project))
                         -> TrackerAnswers] :
          series' = check_completed_series(series, answers)
    /\ UNCHANGED <<git_builds, StoreFrame>>

CheckSupersededSeries ==
    /\ pc = "store"
    /\ \E states \in [AskedIds(get_active_branches(series, pw_instance))
                        -> PatchStates] :
          series' = check_superseded_series(series, states)
    /\ UNCHANGED <<git_builds, StoreFrame>>

StoreSetSeriesSubmitted ==
    /\ pc = "store"
    /\ \E k \in DOMAIN series :
          series' = set_series_submitted(series, pw_instance,
                                         series[k].series_id)
    /\ UNCHANGED <<git_builds, StoreFrame>>

StoreSetSeriesBranch ==
    /\ pc = "store"
    /\ \E k \in DOMAIN series, repo \in BranchRepos :
          series' = set_series_branch(series, pw_instance, series[k].series_id,
                                      repo, BranchName(series[k].series_id))
    /\ UNCHANGED <<git_builds, StoreFrame>>

StoreNext ==
    \/ StoreInsertBuild
    \/ StoreSetBuildSynced
    \/ CheckNewSeries
    \/ CheckCompletedSeries
    \/ CheckSupersededSeries
    \/ StoreSetSeriesSubmitted
    \/ StoreSetSeriesBranch

StoreSpec == StoreInit /\ [][StoreNext]_vars

----------------------------------------------------------------------------
(* Properties of the State Store under its callers.                          *)

\* The fields of a build row that are not sync flags.
BuildIdentity(row) ==
    [series_id |-> row.series_id,
     patch_id |-> row.patch_id,
     patchwork_instance |-> row.patchwork_instance,
     patchwork_project |-> row.patchwork_project,
     repo_name |-> row.repo_name]

\* C14: no step deletes a build row or changes a build row's non-flag
\* fields, and no step moves a sync flag of a build row from 1 back to 0.
C14_BuildRowsImmutableFlagsMonotonic ==
    [][/\ Len(git_builds') >= Len(git_builds)
       /\ \A k \in DOMAIN git_builds :
             /\ BuildIdentity(git_builds'[k]) = BuildIdentity(git_builds[k])
             /\ \A col \in SchemaColumns :
                   git_builds'[k][col] >= git_builds[k][col]]_vars

\* A build row with a flag already set is stored next to another row, so a
\* further set_build_synced acts on a table with set and unset flags.
C14_Witness ==
    /\ pc = "store"
    /\ Len(git_builds) = MaxStoreBuilds
    /\ \E k \in DOMAIN git_builds, col \in SchemaColumns :
          git_builds[k][col] = 1

\* C15: a step that changes flags of stored build rows is a
\* set_build_synced(instance, patch_id, column): in the rows of that
\* instance and patch only that column changes, to 1; every other build row
\* and every series row is as before.
C15_SetBuildSyncedFrame ==
    [][(Len(git_builds') = Len(git_builds) /\ git_builds' # git_builds)
        => /\ series' = series
           /\ \E instance \in Instances, patch_id \in StorePatchIds,
                 col \in SchemaColumns :
                 \A k \in DOMAIN git_builds :
                    IF /\ git_builds[k].patchwork_instance = instance
                       /\ git_builds[k].patch_id = patch_id
                    THEN git_builds'[k] = [git_builds[k] EXCEPT ![col] = 1]
                    ELSE git_builds'[k] = git_builds[k]]_vars

\* Two instances hold a build of the same patch id next to a series row;
\* set_build_synced has set one flag of one of the two rows, whose other
\* flags are still 0, as are all flags of the other row.
C15_Witness ==
    /\ pc = "store"
    /\ series # <<>>
    /\ \E k, j \in DOMAIN git_builds, col \in SchemaColumns :
          /\ git_builds[k].patch_id = git_builds[j].patch_id
          /\ git_builds[k].patchwork_instance # git_builds[j].patchwork_instance
          /\ git_builds[k][col] = 1
          /\ \A c \in SchemaColumns \ {col} : git_builds[k][c] = 0
          /\ \A c \in SchemaColumns : git_builds[j][c] = 0

\* C17: in every reachable state a series row with series_submitted = 1
\* also has series_completed = 1.
C17_SubmittedImpliesCompleted ==
    \A k \in DOMAIN series :
        series[k].series_submitted = 1 => series[k].series_completed = 1

\* No two rows of the series table have the same (instance, series_id).
UniqueSeries(tbl) ==
    \A k, j \in DOMAIN tbl :
        (/\ tbl[k].series_instance = tbl[j].series_instance
         /\ tbl[k].series_id = tbl[j].series_id) => k = j

\* C18: the series table holds at most one row per (instance, series_id),
\* and a discovery pass over any batch of events, with ids repeated in the
\* batch or recorded by an earlier pass, keeps it so and leaves every row
\* recorded before the pass as it was.
C18_DiscoveryRecordsSeriesOnce ==
    /\ UniqueSeries(series)
    /\ \A events \in EventBatches :
          LET after == check_new_series(series, events)
          IN  /\ UniqueSeries(after)
              /\ Len(after) >= Len(series)
              /\ SubSeq(after, 1, Len(series)) = series

\* A series recorded by discovery has since been completed, submitted and
\* given a branch; the batches of C18 observe it again, beside a series
\* that is not recorded yet.
C18_Witness ==
    /\ pc = "store"
    /\ Len(series) = 1
    /\ series[1].series_id = 1000
    /\ series[1].series_completed = 1
    /\ series[1].series_submitted = 1
    /\ series[1].series_branch = BranchName(1000)

\* The rows a discovery pass over events adds to tbl.
Discovered(tbl, events) ==
    LET after == check_new_series(tbl, events)
    IN  {after[k] : k \in (Len(tbl) + 1)..Len(after)}

\* The event of the batch that makes the pass record series_id: the first
\* one of that id the tracker answers for.
RecordingEvent(events, series_id) ==
    CHOOSE n \in DOMAIN events :
        /\ events[n].series_id = series_id
        /\ events[n].answer # "error"
        /\ \A m \in 1..(n - 1) :
              events[m].series_id = series_id => events[m].answer = "error"

\* C19, as stated: every row a discovery pass creates has completed = 0,
\* submitted = 0 and downloaded = 0, whatever the tracker answers.
C19_DiscoveredRowsStartUncompleted ==
    \A events \in EventBatches :
        \A row \in Discovered(series, events) :
            /\ row.series_completed = 0
            /\ row.series_submitted = 0
            /\ row.series_downloaded = 0

\* C19, amended: every row a discovery pass creates has submitted = 0 and
\* downloaded = 0, and completed = 1 exactly when the tracker reported
\* received_all for the series when it was recorded.
C19_DiscoveredRowsTakeReceivedAll ==
    \A events \in EventBatches :
        \A row \in Discovered(series, events) :
            /\ row.series_submitted = 0
            /\ row.series_downloaded = 0
            /\ row.series_completed =
                  (IF events[RecordingEvent(events, row.series_id)].answer
                         = "all"
                   THEN 1 ELSE 0)

\* Discovery has recorded two series that nothing has touched since, the
\* first reported complete by the tracker, the second not.
C19_Witness ==
    /\ pc = "store"
    /\ Len(series) = 2
    /\ series[1].series_completed = 1
    /\ series[2].series_completed = 0
    /\ \A k \in DOMAIN series :
          /\ series[k].series_submitted = 0
          /\ series[k].series_branch = SqlNull

\* C20: no step takes a series row with series_completed = 1 to a state
\* where that row is gone, stands for another series, or has
\* series_completed = 0.
C20_CompletedNeverReset ==
    [][\A k \in DOMAIN series :
          series[k].series_completed = 1
             => /\ k \in DOMAIN series'
                /\ series'[k].series_instance = series[k].series_instance
                /\ series'[k].series_id = series[k].series_id
                /\ series'[k].series_completed = 1]_vars

\* A completed series has since been submitted and has had its branch set
\* and released by the superseded pass, while a second series is recorded.
C20_Witness ==
    /\ pc = "store"
    /\ Len(series) = 2
    /\ \E k \in DOMAIN series :
          /\ series[k].series_completed = 1
          /\ series[k].series_submitted = 1
          /\ series[k].series_branch = ""

----------------------------------------------------------------------------
(* Round trips of the State Store's operations and queries.                  *)

\* Arguments of set_series_branch: a repository, and the name of a branch
\* or the empty text.
StoreRepos == {"owner/repo", "dpdk/dpdk"}
StoreBranches == {BranchName(id) : id \in StoreSeriesIds}
BranchArguments == StoreBranches \cup {""}

\* The rows get_active_branches returns for one series.
ActiveRows(tbl, instance, series_id) ==
    SelectSeq(get_active_branches(tbl, instance),
              LAMBDA r : r.series_id = series_id)

\* For every recorded series, every repo and every branch of branches:
\* get_active_branches right after set_series_branch returns the series, with
\* exactly that repo and branch; right after clear_series_branch (on the
\* store as it is, or after the set) it does not return the series; and a
\* series that add_series has just recorded is not returned.
BranchRoundTrip(branches) ==
    /\ \A k \in DOMAIN series, repo \in StoreRepos, branch \in branches :
          LET id == series[k].series_id
              instance == series[k].series_instance
              set == set_series_branch(series, instance, id, repo, branch)
              rows == ActiveRows(set, instance, id)
          IN  /\ rows # <<>>
              /\ \A n \in DOMAIN rows :
                    /\ rows[n].series_branch = branch
                    /\ rows[n].series_repo = repo
              /\ ActiveRows(clear_series_branch(series, instance, id),
                            instance, id) = <<>>
              /\ ActiveRows(clear_series_branch(set, instance, id),
                            instance, id) = <<>>
    /\ \A id \in StoreSeriesIds, completed \in BOOLEAN :
          ~series_exists(series, pw_instance, id)
             => ActiveRows(add_series(series, pw_instance, pw_project, id,
                                      completed),
                           pw_instance, id) = <<>>

\* C21, as stated: the round trip of set_series_branch, clear_series_branch
\* and add_series through get_active_branches holds for every series and
\* every repo/branch value, the empty branch included.
C21_BranchRoundTripAnyValue == BranchRoundTrip(BranchArguments)

\* C21, amended: the round trip holds for every series, every repo and
\* every non-empty branch: the series is returned with the repo and branch
\* just set, is not returned after clear_series_branch, and is not returned
\* when freshly added.
C21_BranchRoundTrip == BranchRoundTrip(StoreBranches)

\* One recorded series has an active branch, which the operations of C21
\* overwrite and clear; a second one has had its branch cleared; the third
\* case, a series not recorded yet, is met in the states before.
C21_Witness ==
    /\ pc = "store"
    /\ Len(series) = 2
    /\ ActiveRows(series, pw_instance, series[1].series_id) # <<>>
    /\ series[2].series_branch = ""

\* CIProvider.name of the providers create_provider can build.
ProviderNames == {"gap", "travis", "cirrus", "dummy"}

\* C22: after insert_build, get_unsynced_builds for the sync column of any
\* provider answers (the column exists) and returns a row with exactly the
\* inserted values and every sync flag 0.
C22_InsertedBuildIsUnsynced ==
    \A b \in StoreBuildInputs, name \in ProviderNames :
        LET tbl == insert_build(git_builds, b)
            ci_type == sync_column(name)
        IN  /\ ci_type \in SchemaColumns
            /\ \E n \in DOMAIN get_unsynced_builds(tbl, b.instance, ci_type) :
                  get_unsynced_builds(tbl, b.instance, ci_type)[n] =
                      [series_id |-> b.series_id,
                       patch_id |-> b.patch_id,
                       patchwork_instance |-> b.instance,
                       patchwork_project |-> b.project,
                       repo_name |-> b.repo_name,
                       gap_sync |-> 0, obs_sync |-> 0, cirrus_sync |-> 0]

\* Projects a series is recorded or asked for under.
StoreProjects == {pw_project, "otherproject"}

\* How many rows of a query's answer stand for series_id.
Occurrences(rows, series_id) ==
    Cardinality({n \in DOMAIN rows : rows[n].series_id = series_id})

\* The rows of tbl at the indices of keep, in table order.
RowsAt(tbl, keep) ==
    LET RECURSIVE From(_)
        From(k) == IF k > Len(tbl) THEN <<>>
                   ELSE IF k \in keep THEN <<tbl[k]>> \o From(k + 1)
                   ELSE From(k + 1)
    IN  From(1)

\* C23: for every instance and project, get_uncompleted_series returns
\* exactly the rows of that instance and project with completed = 0,
\* submitted = 0 and downloaded = 0, and get_unsubmitted_series exactly
\* those with completed = 1 and submitted = 0; a series just added as
\* uncompleted is once in the first answer and not in the second, after
\* set_series_completed it is in the second only, and after
\* set_series_submitted in neither.
C23_LifecycleQueries ==
    \A instance \in Instances, project \in StoreProjects :
        /\ get_uncompleted_series(series, instance, project) =
              RowsAt(series,
                  {k \in DOMAIN series :
                      <<series[k].series_instance, series[k].series_project,
                        series[k].series_completed, series[k].series_submitted,
                        series[k].series_downloaded>>
                      = <<instance, project, 0, 0, 0>>})
        /\ get_unsubmitted_series(series, instance, project) =
              RowsAt(series,
                  {k \in DOMAIN series :
                      <<series[k].series_instance, series[k].series_project,
                        series[k].series_completed, series[k].series_submitted>>
                      = <<instance, project, 1, 0>>})
        /\ \A id \in StoreSeriesIds :
              ~series_exists(series, instance, id) =>
                 LET added == add_series(series, instance, project, id, FALSE)
                     done == set_series_completed(added, instance, id)
                     sent == set_series_submitted(done, instance, id)
                     Unc(t) == Occurrences(
                                 get_uncompleted_series(t, instance, project),
                                 id)
                     Uns(t) == Occurrences(
                                 get_unsubmitted_series(t, instance, project),
                                 id)
                 IN  /\ Unc(added) = 1 /\ Uns(added) = 0
                     /\ Unc(done) = 0 /\ Uns(done) = 1
                     /\ Unc(sent) = 0 /\ Uns(sent) = 0

\* The store holds a completed series that is not submitted and no other,
\* so that the queries of C23 tell the states of a series apart and a
\* further series is added beside it.
C23_Witness ==
    /\ pc = "store"
    /\ Len(series) = 1
    /\ get_unsubmitted_series(series, pw_instance, pw_project) # <<>>
    /\ series[1].series_branch = SqlNull

\* C24: every mutating operation of the store, applied twice in a row with
\* the same arguments, leaves the tables (and so the answer of every query)
\* as applying it once does.
C24_MutatorsIdempotent ==
    /\ \A instance \in Instances, id \in StoreSeriesIds :
          /\ \A project \in StoreProjects, completed \in BOOLEAN :
                LET once == add_series(series, instance, project, id, completed)
                IN  add_series(once, instance, project, id, completed) = once
          /\ LET once == set_series_completed(series, instance, id)
             IN  set_series_completed(once, instance, id) = once
          /\ LET once == set_series_submitted(series, instance, id)
             IN  set_series_submitted(once, instance, id) = once
          /\ LET once == clear_series_branch(series, instance, id)
             IN  clear_series_branch(once, instance, id) = once
          /\ \A repo \in StoreRepos, branch \in BranchArguments :
                LET once == set_series_branch(series, instance, id, repo, branch)
                IN  set_series_branch(once, instance, id, repo, branch) = once
    /\ \A b \in StoreBuildInputs :
          LET once == insert_build(git_builds, b)
          IN  insert_build(once, b) = once
    /\ \A instance \in Instances, patch_id \in StorePatchIds,
          ci_type \in SchemaColumns :
          LET once == set_build_synced(git_builds, instance, patch_id, ci_type)
          IN  set_build_synced(once, instance, patch_id, ci_type) = once

----------------------------------------------------------------------------
(* Properties of the passes of the Monitor.                                  *)

\* A series id of another project: the one of tests/test_database.py.
test_series_id == 12345

\* Series rows that Monitors of another instance or another project have
\* recorded in the same store as uncompleted.  Series ids are the tracker
\* instance's: another instance may use the same ids, another project of
\* the same instance has its own.
ForeignSeries ==
    {add_series(<<>>, other_instance, pw_project, id, FALSE)[1] :
        id \in StoreSeriesIds}
    \cup {add_series(<<>>, pw_instance, "otherproject", test_series_id,
                     FALSE)[1]}

\* The series table as it is, or with one row of ForeignSeries in front.
SharedStores == {series} \cup {<<row>> \o series : row \in ForeignSeries}

\* C25: whatever the tracker answers for each series (an error, all patches
\* received, or not), check_completed_series sets completed in exactly the
\* rows of the monitored instance and project that are uncompleted,
\* unsubmitted and undownloaded and whose series is reported as all
\* received, and leaves every other row as it was, rows of other instances
\* and projects included; an error for one series takes nothing from the
\* others.
C25_CompletionPassExact ==
    \A tbl \in SharedStores,
       answers \in [StoreSeriesIds \cup {test_series_id} -> TrackerAnswers] :
        LET after == check_completed_series(tbl, answers)
        IN  /\ Len(after) = Len(tbl)
            /\ \A k \in DOMAIN tbl :
                  after[k] =
                     IF /\ tbl[k].series_instance = pw_instance
                        /\ tbl[k].series_project = pw_project
                        /\ tbl[k].series_completed = 0
                        /\ tbl[k].series_submitted = 0
                        /\ tbl[k].series_downloaded = 0
                        /\ answers[tbl[k].series_id] = "all"
                     THEN [tbl[k] EXCEPT !.series_completed = 1]
                     ELSE tbl[k]

\* Two series wait for completion, so that the answers of C25 include an
\* error for the first with all patches received for the second.
C25_Witness ==
    /\ pc = "store"
    /\ Len(get_uncompleted_series(series, pw_instance, pw_project)) = 2

----------------------------------------------------------------------------
(* The Monitor: PatchworkMonitor.run_full_check, one tracker request per     *)
(* step, beside the dispatcher that shares the store.  pc is the pass the    *)
(* run is in ("idle" between runs), cur the rows or events the pass has      *)
(* still to handle, call what the run has done so far.                       *)

MonitorPasses == <<"new", "completed", "superseded", "recheck">>

\* The series ids of the rows a pass loops over, in their order.
IdsOf(rows) == [n \in DOMAIN rows |-> rows[n].series_id]

\* The events GET /api/events/ can answer with: series-created events by
\* series id.
EventIds == UNION {[1..n -> StoreSeriesIds] : n \in 0..MaxEvents}

RunInit == [filters |-> FALSE, passes |-> <<>>, errors |-> {},
            discovered |-> {}]

MonitorFrame == <<git_builds, providers, pidx, gen, outbox, notified>>

MonitorInit ==
    /\ git_builds = <<>>
    /\ series = <<>>
    /\ pc = "idle"
    /\ providers = <<"gap">>
    /\ pidx = 1
    /\ gen = GenInit
    /\ cur = <<>>
    /\ outbox = None
    /\ notified = {}
    /\ call = RunInit

\* run_full_check calls check_new_series: get_series_events raises a
\* RequestException (the pass returns) or answers with the events.
StartRun ==
    /\ pc = "idle"
    /\ pc' = "new"
    /\ \E recheck_filters \in BOOLEAN, failed \in BOOLEAN, events \in EventIds :
          /\ cur' = IF failed THEN <<>> ELSE events
          /\ call' = [RunInit EXCEPT
                         !.filters = recheck_filters,
                         !.passes = <<"new">>,
                         !.errors = IF failed THEN {"new"} ELSE {}]
    /\ UNCHANGED <<series, MonitorFrame>>

\* check_new_series, one event: get_series, then emit_series; a
\* RequestException goes on to the next event.  With an error on every
\* answer the run ends at once.
NewSeriesStepEndingOnError ==
    /\ pc = "new"
    /\ cur # <<>>
    /\ \E answer \in TrackerAnswers :
          IF answer = "error"
          THEN /\ pc' = "idle"
               /\ cur' = <<>>
               /\ call' = [call EXCEPT !.errors = @ \cup {"new"}]
               /\ UNCHANGED <<series, MonitorFrame>>
          ELSE /\ series' = emit_series(series, Head(cur), answer = "all")
               /\ cur' = Tail(cur)
               /\ UNCHANGED <<pc, call, MonitorFrame>>

NewSeriesStep ==
    /\ pc = "new"
    /\ cur # <<>>
    /\ \E answer \in TrackerAnswers :
          IF answer = "error"
          THEN /\ call' = [call EXCEPT !.errors = @ \cup {"new"}]
               /\ UNCHANGED series
          ELSE /\ series' = emit_series(series, Head(cur), answer = "all")
               /\ call' = [call EXCEPT
                              !.discovered =
                                  IF /\ answer = "part"
                                     /\ ~series_exists(series, pw_instance,
                                                       Head(cur))
                                  THEN @ \cup {Head(cur)} ELSE @]
    /\ cur' = Tail(cur)
    /\ UNCHANGED <<pc, MonitorFrame>>

\* check_completed_series started while check_new_series has events left.
StartCompletedEarly ==
    /\ pc = "new"
    /\ pc' = "completed"
    /\ cur' = IdsOf(get_uncompleted_series(series, pw_instance, pw_project))
    /\ call' = [call EXCEPT !.passes = Append(@, "completed")]
    /\ UNCHANGED <<series, MonitorFrame>>

\* check_new_series has returned; check_completed_series reads
\* get_uncompleted_series.
StartCompleted ==
    /\ pc = "new"
    /\ cur = <<>>
    /\ pc' = "completed"
    /\ cur' = IdsOf(get_uncompleted_series(series, pw_instance, pw_project))
    /\ call' = [call EXCEPT !.passes = Append(@, "completed")]
    /\ UNCHANGED <<series, MonitorFrame>>

\* check_completed_series, one row.
CompletedStep ==
    /\ pc = "completed"
    /\ cur # <<>>
    /\ \E answer \in TrackerAnswers :
          /\ series' = IF answer = "all"
                       THEN set_series_completed(series, pw_instance, Head(cur))
                       ELSE series
          /\ call' = [call EXCEPT
                         !.errors = IF answer = "error"
                                    THEN @ \cup {"completed"} ELSE @]
    /\ cur' = Tail(cur)
    /\ UNCHANGED <<pc, MonitorFrame>>

\* check_completed_series has returned; check_superseded_series reads
\* get_active_branches.
StartSuperseded ==
    /\ pc = "completed"
    /\ cur = <<>>
    /\ pc' = "superseded"
    /\ cur' = IdsOf(get_active_branches(series, pw_instance))
    /\ call' = [call EXCEPT !.passes = Append(@, "superseded")]
    /\ UNCHANGED <<series, MonitorFrame>>

\* check_superseded_series, one row.
SupersededStep ==
    /\ pc = "superseded"
    /\ cur # <<>>
    /\ \E state \in PatchStates :
          /\ series' = IF FinalPatchState(state)
                       THEN clear_series_branch(series, pw_instance, Head(cur))
                       ELSE series
          /\ call' = [call EXCEPT
                         !.errors = IF state = "error"
                                    THEN @ \cup {"superseded"} ELSE @]
    /\ cur' = Tail(cur)
    /\ UNCHANGED <<pc, MonitorFrame>>

\* if recheck_filters: check_recheck_requests, which reads the tracker
\* (with or without a RequestException) and writes nothing to the store.
RecheckScan ==
    /\ pc = "superseded"
    /\ cur = <<>>
    /\ call.filters
    /\ pc' = "recheck"
    /\ \E failed \in BOOLEAN :
          call' = [call EXCEPT
                      !.passes = Append(@, "recheck"),
                      !.errors = IF failed THEN @ \cup {"recheck"} ELSE @]
    /\ UNCHANGED <<series, cur, MonitorFrame>>

\* run_full_check returns.
EndRun ==
    /\ pc = "recheck" \/ (pc = "superseded" /\ cur = <<>> /\ ~call.filters)
    /\ pc' = "idle"
    /\ UNCHANGED <<series, cur, call, MonitorFrame>>

\* The dispatcher, a process of its own on the same store.
DispatcherSetSeriesBranch ==
    /\ \E k \in DOMAIN series, repo \in BranchRepos :
          series' = set_series_branch(series, pw_instance, series[k].series_id,
                                      repo, BranchName(series[k].series_id))
    /\ UNCHANGED <<pc, cur, call, MonitorFrame>>

DispatcherSetSeriesSubmitted ==
    /\ \E k \in DOMAIN series :
          series' = set_series_submitted(series, pw_instance,
                                         series[k].series_id)
    /\ UNCHANGED <<pc, cur, call, MonitorFrame>>

\* The steps of the run itself.
RunStep ==
    \/ NewSeriesStep
    \/ StartCompleted
    \/ CompletedStep
    \/ StartSuperseded
    \/ SupersededStep
    \/ RecheckScan
    \/ EndRun

MonitorNext ==
    \/ StartRun
    \/ NewSeriesStep
    \/ StartCompleted
    \/ CompletedStep
    \/ StartSuperseded
    \/ SupersededStep
    \/ RecheckScan
    \/ EndRun
    \/ DispatcherSetSeriesBranch
    \/ DispatcherSetSeriesSubmitted

MonitorSpec == MonitorInit /\ [][MonitorNext]_vars

----------------------------------------------------------------------------
(* Properties of the passes of the Monitor, continued.                       *)

\* The series table as it is, or, while it has room, with one row of
\* ForeignSeries in front that has an active branch.
SharedStoresWithBranch ==
    {series}
    \cup {<<[row EXCEPT !.series_branch = BranchName(1000),
                        !.series_repo = "owner/repo"]>> \o series :
             row \in IF Len(series) < MaxStoreSeries
                     THEN ForeignSeries ELSE {}}

\* C26: whatever the tracker answers for the last patch of each series (an
\* error, no patches, or the patch in some state), check_superseded_series
\* clears the branch of exactly the rows of the monitored instance with an
\* active branch whose last patch is in one of the five terminal states,
\* so that they are active no more; every other row keeps its branch, its
\* repo and all the rest.
C26_SupersededPassExact ==
    \A tbl \in SharedStoresWithBranch :
        \A states \in [{tbl[k].series_id : k \in DOMAIN tbl} -> PatchStates] :
            LET after == check_superseded_series(tbl, states)
            IN  /\ Len(after) = Len(tbl)
                /\ \A k \in DOMAIN tbl :
                      IF /\ tbl[k].series_instance = pw_instance
                         /\ ~EmptyText(tbl[k].series_branch)
                         /\ states[tbl[k].series_id] \in
                               {"superseded", "rejected", "accepted",
                                "changes-requested", "not-applicable"}
                      THEN /\ EmptyText(after[k].series_branch)
                           /\ ActiveRows(after, pw_instance,
                                         tbl[k].series_id) = <<>>
                           /\ [after[k] EXCEPT !.series_branch = ""]
                                 = [tbl[k] EXCEPT !.series_branch = ""]
                      ELSE after[k] = tbl[k]

\* Two series have an active branch, so that the answers of C26 include a
\* terminal state for one with an error or an open state for the other.
C26_Witness ==
    /\ pc = "store"
    /\ Len(get_active_branches(series, pw_instance)) = 2


\* The elements of a sequence.
Range(seq) == {seq[n] : n \in DOMAIN seq}

\* A recorded series that get_uncompleted_series returns.
Uncompleted(tbl, series_id) ==
    \E n \in DOMAIN get_uncompleted_series(tbl, pw_instance, pw_project) :
        get_uncompleted_series(tbl, pw_instance, pw_project)[n].series_id
            = series_id

\* C27: in every run the passes started so far are, in order, a prefix of
\* discovery, completion, superseded, recheck; a pass is started, and the
\* run is ended, only when the pass before has handled all it had to
\* handle (each of its store writes is committed within its step); and
\* the completion pass, when it starts, has in its list every series the
\* discovery pass of the same run recorded as uncompleted and that still
\* is so.
C27_PassesInOrder ==
    [][/\ call'.passes = SubSeq(MonitorPasses, 1, Len(call'.passes))
       /\ (pc' # pc /\ pc # "idle") => cur = <<>>
       /\ (pc = "new" /\ pc' = "completed") =>
             \A id \in call.discovered :
                 Uncompleted(series, id) => id \in Range(cur')]_vars

\* The completion pass has just started with, in its list, a series that
\* the discovery pass of the same run has recorded as uncompleted.
C27_Witness ==
    /\ pc = "completed"
    /\ call.passes = <<"new", "completed">>
    /\ \E id \in call.discovered : id \in Range(cur)

\* The passes a run has to make: the recheck scan only with filters.
PassesOf(run) ==
    IF run.filters THEN MonitorPasses
    ELSE SubSeq(MonitorPasses, 1, Len(MonitorPasses) - 1)

\* C28: whatever tracker requests have failed in a run, and in whichever
\* passes, the run is never stopped before its end (a step of it is
\* enabled), and it ends only after every pass it has to make has been
\* started and has gone through its list.
C28_FailuresDoNotBlockPasses ==
    [][/\ pc # "idle" => ENABLED RunStep
       /\ (pc # "idle" /\ pc' = "idle") =>
             /\ call.passes = PassesOf(call)
             /\ cur = <<>>]_vars

\* A run has ended in which a request failed in each of the four passes,
\* and the store holds a series completed and a branch released.
C28_Witness ==
    /\ pc = "idle"
    /\ call.errors = Range(MonitorPasses)
    /\ call.passes = MonitorPasses
    /\ \E k \in DOMAIN series : series[k].series_completed = 1
    /\ \E k \in DOMAIN series : series[k].series_branch = ""

----------------------------------------------------------------------------
(* The CI Monitor with several providers configured: the poll cycle of      *)
(* Next over provider lists of two, on a store of fewer builds and more     *)
(* series.                                                                   *)

MaxListBuilds == 2
MaxListSeries == 2

\* Provider lists of cli.py with two providers enabled: cli.py appends in
\* the order github, travis, cirrus, dummy.
ProviderLists ==
    {<<"gap", "cirrus">>, <<"gap", "dummy">>, <<"travis", "cirrus">>}

ListInit ==
    /\ git_builds = <<>>
    /\ series = <<>>
    /\ pc = "idle"
    /\ providers \in ProviderLists
    /\ pidx = 1
    /\ gen = GenInit
    /\ cur = None
    /\ outbox = None
    /\ notified = {}
    /\ call = CallInit

\* One build of each series, inserted in any order.
ListBuildInputs ==
    {b \in BuildInputs : b.patch_id \in {100001, 100101}}

ListInsertBuild ==
    /\ pc = "idle"
    /\ Len(git_builds) < MaxListBuilds
    /\ \E b \in ListBuildInputs :
          /\ \A k \in DOMAIN git_builds : git_builds[k].patch_id # b.patch_id
          /\ git_builds' = insert_build(git_builds, b)
    /\ outbox' = None
    /\ UNCHANGED <<series, pc, providers, pidx, gen, cur, notified, call>>

\* The series are recorded in any order.
ListAddSeries ==
    /\ pc = "idle"
    /\ Len(series) < MaxListSeries
    /\ \E s \in SeriesInputs :
          /\ ~series_exists(series, pw_instance, s.series_id)
          /\ series' = add_series(series, pw_instance, s.project, s.series_id,
                                  FALSE)
    /\ outbox' = None
    /\ UNCHANGED <<git_builds, pc, providers, pidx, gen, cur, notified, call>>

ListNext ==
    \/ ListInsertBuild
    \/ ListAddSeries
    \/ SetSeriesBranch
    \/ StartCycle
    \/ ScanProvider
    \/ ProviderStep
    \/ ProcessBuildResult
    \/ ProviderResume
    \/ GeneratorDone
    \/ EndCycle

ListSpec == ListInit /\ [][ListNext]_vars

----------------------------------------------------------------------------
(* Properties of the poll cycle over a provider list.                        *)

\* A step in which an exception leaves the provider's generator or
\* process_build_result and is caught by monitor_ci_systems.
CaughtException ==
    \/ pc = "yielded" /\ pc' = "scan"
    \/ pc = "scan" /\ pc' = "scan" /\ pidx' # pidx

\* C29: an exception raised by a provider's get_build_results or by the
\* processing of an Outcome moves the cycle on to the next provider of the
\* list and changes no build row; every provider of the list can be
\* scanned, and the cycle is left only after the last one; no step of the
\* cycle resets a sync flag.
C29_ProviderFailureIsSkipped ==
    [][/\ providers' = providers
       /\ CaughtException => (pidx' = pidx + 1 /\ git_builds' = git_builds)
       /\ (pc = "scan" /\ pidx <= Len(providers)) => ENABLED ScanProvider
       /\ (pc # "idle" /\ pc' = "idle")
             => (pc = "scan" /\ pidx > Len(providers))
       /\ (pc # "idle" /\ pc' # "idle") => pidx' \in {pidx, pidx + 1}
       /\ \A k \in DOMAIN git_builds, col \in SchemaColumns :
             git_builds'[k][col] >= git_builds[k][col]]_vars

\* The processing of an Outcome of the first provider has just raised after
\* the result email was sent; the exception is caught and the second
\* provider of the list is about to be scanned.
C29_Witness ==
    /\ pc = "scan"
    /\ pidx = 2
    /\ outbox # None
    /\ providers = <<"gap", "cirrus">>

\* C30: within a poll cycle the providers are scanned in the order of the
\* list, one being started only when the one before has produced and had
\* processed all its Outcomes, and the Outcomes of one provider come in
\* ascending series_id order: none has a smaller series_id than one
\* yielded before it in the same call.
C30_ProvidersAndBuildsInOrder ==
    [][/\ (pc # "idle" /\ pc' # "idle") => pidx' \in {pidx, pidx + 1}
       /\ pidx' # pidx => pc' \in {"scan", "idle"}
       /\ (pc' = "yielded" /\ pc # "yielded") =>
             \A key \in call.yielded : key[1] <= cur'[1].series_id]_vars

----------------------------------------------------------------------------
(* CIMonitor.process_build_result in full: the tracker is asked for the    *)
(* series and for the patch, the result email is composed and handed to    *)
(* git send-email.  cur is the Outcome a provider has yielded, call what   *)
(* the tracker answered, outbox the email as the notifier got it.          *)

\* What GET /api/series/{id}/ answers: a RequestException, {} ("empty"), a
\* series without the key 'patches', or the ids of its patches in order.
SeriesAnswer(kind, patches) == [kind |-> kind, patches |-> patches]

SeriesAnswers ==
    { SeriesAnswer("error", <<>>),
      SeriesAnswer("empty", <<>>),
      SeriesAnswer("no_patches_key", <<>>),
      SeriesAnswer("json", <<>>),
      SeriesAnswer("json", <<100001>>),
      SeriesAnswer("json", <<100001, 100002>>),
      SeriesAnswer("json", <<100002, 100001>>) }

\* The fields of the patch the tracker returns that the email depends on:
\* submitter.email and a top-level email, each present (<<address>>) or not.
PatchFields ==
    [submitter_email : {None, Some("submitter@example.com")},
     email : {None, Some("author@example.com")}]

\* The Outcomes a provider of the list yields: Travis ones carry no patch_id;
\* patch 100003 is a build row whose patch the series does not list.
NotifyOutcomes ==
    { Outcome(1000, patch_id, result, [branch |-> BranchName(1000), id |-> 1],
              "owner/repo", test_name) :
        patch_id \in {100001, 100002, 100003}, result \in {"passed", "failed"},
        test_name \in {"Build"} }

TravisOutcomes ==
    { Outcome(1000, NoPatchId, result, [branch |-> BranchName(1000), id |-> 1],
              "owner/repo", "") : result \in {"passed", "failed"} }

\* get_series_data: None on a RequestException, else the series.
get_series_data(answer) ==
    IF answer.kind = "error" THEN None ELSE Some(answer)

\* The patch urls get_patch_data requests, in order, until one is answered:
\* the patches with the id of the Outcome (if patch_id:), then the last one.
PatchRequests(patches, patch_id) ==
    (IF patch_id # NoPatchId
     THEN SelectSeq(patches, LAMBDA id : id = patch_id) ELSE <<>>)
    \o (IF patches # <<>> THEN <<patches[Len(patches)]>> ELSE <<>>)

\* get_patch_data: the id of the patch whose data is returned, None if
\* there is none; answers[n] tells whether the n-th get_patch is answered.
get_patch_data(series_data, patch_id, answers) ==
    IF series_data.kind # "json" THEN None
    ELSE LET requests == PatchRequests(series_data.patches, patch_id)
             answered == {n \in DOMAIN requests : answers[n]}
         IN  IF answered = {} THEN None
             ELSE Some(requests[CHOOSE n \in answered :
                                   \A m \in answered : n <= m])

\* cc_author fixed to False.
cc_author_never(result) == FALSE

\* cc_author = build_result['result'] != 'passed'
cc_author(result) == result # "passed"

\* generate_report_email: the address of the Cc: header, None without one.
HeaderCc(result, patch_data, cc) ==
    IF cc /\ result # "passed" /\ patch_data.email # None
    THEN patch_data.email ELSE None

MaxPatchRequests == 2

NotifyInit ==
    /\ git_builds = <<>>
    /\ series = <<>>
    /\ pc = "yielded"
    /\ providers \in {<<"gap">>, <<"travis">>}
    /\ pidx = 1
    /\ gen = GenInit
    /\ cur \in {Some(o) : o \in IF providers = <<"travis">>
                                THEN TravisOutcomes ELSE NotifyOutcomes}
    /\ outbox = None
    /\ notified = {}
    /\ call = [series_answer |-> SeriesAnswer("error", <<>>),
               answers |-> [n \in 1..MaxPatchRequests |-> FALSE],
               patch_data |-> None, logs |-> FALSE]

\* process_build_result on cur, up to the first send_email_via_git or to the
\* return or exception before it.  logs tells whether the provider's log
\* script can be run (monitor.py:93-101 catch no OSError).
ProcessOutcome ==
    /\ pc = "yielded"
    /\ \E series_answer \in SeriesAnswers,
          answers \in [1..MaxPatchRequests -> BOOLEAN],
          fields \in PatchFields, logs \in BOOLEAN :
          LET o == cur[1]
              series_data == get_series_data(series_answer)
              empty == series_data = None \/ series_answer.kind = "empty"
              patch == IF empty THEN None
                       ELSE get_patch_data(series_data[1], o.patch_id, answers)
              cc == cc_author(o.result)
              sent == /\ patch # None
                      /\ logs
                      /\ cc => fields.submitter_email # None
          IN  /\ call' = [series_answer |-> series_answer,
                          answers |-> answers,
                          patch_data |-> IF patch = None THEN None
                                         ELSE Some(fields),
                          logs |-> logs]
              /\ IF sent
                 THEN /\ outbox' = Some([key |-> NotifyKey(o),
                                         result |-> o.result,
                                         patch |-> patch[1],
                                         header_cc |-> HeaderCc(o.result,
                                                                fields, cc),
                                         cc_recipients |->
                                             IF cc THEN fields.submitter_email
                                             ELSE None])
                      /\ notified' = notified \cup {NotifyKey(o)}
                 ELSE /\ outbox' = None
                      /\ UNCHANGED notified
    /\ pc' = "resume"
    /\ UNCHANGED <<git_builds, series, providers, pidx, gen, cur>>

\* The provider yields its next Outcome.
NextOutcome ==
    /\ pc = "resume"
    /\ pc' = "yielded"
    /\ cur' \in {Some(o) : o \in IF providers = <<"travis">>
                                 THEN TravisOutcomes ELSE NotifyOutcomes}
    /\ outbox' = None
    /\ UNCHANGED <<git_builds, series, providers, pidx, gen, notified, call>>

NotifyNext ==
    \/ ProcessOutcome
    \/ NextOutcome

NotifySpec == NotifyInit /\ [][NotifyNext]_vars

----------------------------------------------------------------------------
(* Properties of process_build_result.                                       *)

\* The patch of the series the Outcome is about: the one with the Outcome's
\* patch_id if the series lists it, else the series' last patch.
WantedPatch(patches, patch_id) ==
    IF \E k \in DOMAIN patches : patches[k] = patch_id
    THEN patch_id ELSE patches[Len(patches)]

\* C31: a result email is sent only with a fetched series that has
\* patches, and its patch context is the patch with the Outcome's patch_id
\* when the series lists one, else the series' last patch; when the series
\* cannot be fetched, or no request for that patch is answered, no email is
\* sent for the Outcome.
C31_PatchContextResolved ==
    pc = "resume" =>
        LET o == cur[1]
            patches == call.series_answer.patches
            requests == PatchRequests(patches, o.patch_id)
        IN  /\ outbox # None =>
                  /\ call.series_answer.kind = "json"
                  /\ patches # <<>>
                  /\ outbox[1].patch = WantedPatch(patches, o.patch_id)
            /\ (\/ call.series_answer.kind # "json"
                \/ patches = <<>>
                \/ \A n \in DOMAIN requests :
                      requests[n] = WantedPatch(patches, o.patch_id)
                         => ~call.answers[n])
               => outbox = None

\* C32: every result email handed to git send-email for an Outcome whose
\* result is not passed has the submitter of its patch as its one --cc
\* recipient, and one for a passed Outcome has no --cc recipient and no Cc:
\* header.
C32_CcSubmitterUnlessPassed ==
    (pc = "resume" /\ outbox # None) =>
        IF cur[1].result # "passed"
        THEN /\ call.patch_data[1].submitter_email # None
             /\ outbox[1].cc_recipients = call.patch_data[1].submitter_email
        ELSE /\ outbox[1].cc_recipients = None
             /\ outbox[1].header_cc = None

\* A failed Outcome was sent with the submitter in CC, on a patch that also
\* has a top-level email, after a passed one was sent for the same provider.
C32_Witness ==
    /\ pc = "resume"
    /\ outbox # None
    /\ cur[1].result = "failed"
    /\ outbox[1].cc_recipients = Some("submitter@example.com")
    /\ call.patch_data[1].email # None
    /\ Cardinality(notified) > 1

----------------------------------------------------------------------------
(* Properties of the orchestrators under failures of the State Store.        *)

\* The next step of the poll cycle runs a store operation that raises
\* sqlite3.OperationalError: get_unsynced_builds on a sync column that the
\* table does not have.
StoreOperationRaises ==
    /\ pc = "scan"
    /\ pidx <= Len(providers)
    /\ ProviderName # "travis"
    /\ sync_column(ProviderName) \notin SchemaColumns

\* C33: a failure of the State Store raised in a poll cycle is surfaced to
\* the caller of monitor_ci_systems: the cycle does not go on to the next
\* provider as it does after a provider or network error.
C33_StoreFailureSurfaces ==
    [][StoreOperationRaises => ~(pc' = "scan" /\ pidx' = pidx + 1)]_vars

----------------------------------------------------------------------------
(* The poll cycle with backends whose answers may lack a field the provider *)
(* indexes: a workflow run without 'name' (ci_providers.py:92), a Travis    *)
(* build without 'state' (164), a Cirrus edge without 'node' (278) or an    *)
(* answer with "data": null (275).  The KeyError, TypeError or              *)
(* AttributeError is no requests.RequestException: it leaves the generator  *)
(* and is caught by monitor_ci_systems (monitor.py:220).                    *)

MalformedResponse ==
    /\ pc = "gen"
    /\ gen.i <= Len(gen.unsynced)
    /\ LET row == gen.unsynced[gen.i]
       IN  CASE ProviderName = "gap" ->
                  /\ ~FilteredOut(row.patchwork_project)
                  /\ Some(row.series_id) # gen.prev_series
                  /\ Some(ApiUrl(row.repo_name)) # gen.prev_url
             [] ProviderName = "travis" -> ~FilteredOut(row.series_project)
             [] ProviderName = "cirrus" ->
                  /\ ~FilteredOut(row.patchwork_project)
                  /\ HasOwnerAndName(row.repo_name)
             [] ProviderName = "dummy" -> FALSE
    /\ NextProvider
    /\ outbox' = None
    /\ UNCHANGED <<git_builds, series, providers, notified>>

ShapeNext ==
    \/ InsertBuild
    \/ AddSeries
    \/ SetSeriesBranch
    \/ StartCycle
    \/ ScanProvider
    \/ ProviderStep
    \/ MalformedResponse
    \/ ProcessBuildResult
    \/ ProviderResume
    \/ GeneratorDone
    \/ EndCycle

ShapeSpec == Init /\ [][ShapeNext]_vars

\* C34: whatever a backend answers for a unit of work, an answer with
\* missing fields included, the provider's loop either yields an Outcome
\* for the unit or goes on to the next unit: the provider is not left
\* while units remain, and a unit that is skipped gets no sync flag.
C34_MalformedResponseSkipsUnit ==
    [][(pc = "gen" /\ gen.i <= Len(gen.unsynced)) =>
          /\ pidx' = pidx
          /\ pc' \in {"gen", "yielded"}
          /\ pc' = "gen" => gen'.i = gen.i + 1]_vars

----------------------------------------------------------------------------
(* Properties of the build table under insert_build.                         *)

\* C35: in every reachable state of the store the build table holds at
\* most one row per (instance, patch_id), and no answer of
\* get_unsynced_builds holds two rows of the same patch.
C35_OneBuildRowPerPatch ==
    /\ \A k, j \in DOMAIN git_builds :
          (/\ git_builds[k].patchwork_instance = git_builds[j].patchwork_instance
           /\ git_builds[k].patch_id = git_builds[j].patch_id) => k = j
    /\ \A instance \in Instances, ci_type \in SchemaColumns :
          LET rows == get_unsynced_builds(git_builds, instance, ci_type)
          IN  \A k, j \in DOMAIN rows :
                 rows[k].patch_id = rows[j].patch_id => k = j

----------------------------------------------------------------------------
(* PatchworkMonitor.check_recheck_requests: the recheck scan.  A comment's  *)
(* content is a sequence of tokens: the directive prefix, CI names, the     *)
(* separators "," and ", ", the end of a line, other text.  cur holds the   *)
(* patches the scan has still to look at, call the filters and what the     *)
(* tracker answered for the patch just scanned, outbox the matches the step *)
(* reported, notified those of the scan so far.                             *)

Directive == "Recheck-request: "

CommentContents ==
    { <<>>,
      <<"text">>,
      <<Directive, "github">>,
      <<Directive, "cirrus">>,
      <<Directive, "github", ", ", "travis">>,
      <<Directive, "github", ",", "travis">>,
      <<Directive, "travis", "\n">>,
      <<"text", "\n", Directive, "github">> }

\* The comments of one patch.
CommentLists ==
    {<<>>} \cup {<<c>> : c \in CommentContents}
    \cup {<<<<"text">>, <<Directive, "travis", ", ", "github">>>>}

\* --recheck-filter values.
RecheckFilters == {<<>>, <<"github">>, <<"travis">>, <<"github", "travis">>}

\* What get_patch and get_patch_comments answer for a patch: the patch
\* request raises, or gives the state and the comments url (absent, 'null'
\* or a url); the comments request raises or gives the comments.
PatchAnswers ==
    [kind : {"error", "json"},
     state : {"new", "under-review", "superseded", "accepted"},
     comments_url : {"absent", "null", "url"},
     comments_kind : {"error", "json"},
     comments : CommentLists]

\* str.split(sep) on tokens: the items between the tokens of seps.
RECURSIVE SplitAt(_, _)
SplitAt(tokens, seps) ==
    LET hits == {k \in DOMAIN tokens : tokens[k] \in seps}
    IN  IF hits = {} THEN <<tokens>>
        ELSE LET k == CHOOSE h \in hits : \A g \in hits : h <= g
             IN  <<SubSeq(tokens, 1, k - 1)>>
                    \o SplitAt(SubSeq(tokens, k + 1, Len(tokens)), seps)

\* content.replace('Recheck-request: ', '').split(', ')
recheck_list(content) ==
    SplitAt(SelectSeq(content, LAMBDA t : t # Directive), {", "})

\* The filter names _check_patch_for_recheck prints 'Recheck matched' for.
check_patch_for_recheck(answer, recheck_filters) ==
    IF answer.kind = "error" THEN {}
    ELSE IF FinalPatchState(answer.state) THEN {}
    ELSE IF answer.comments_url \in {"absent", "null"} THEN {}
    ELSE IF answer.comments_kind = "error" THEN {}
    ELSE {recheck_filters[f] : f \in
             {x \in DOMAIN recheck_filters :
                 \E n \in DOMAIN answer.comments :
                    LET content == answer.comments[n]
                    IN  /\ content # <<>>
                        /\ content[1] = Directive
                        /\ \E m \in DOMAIN recheck_list(content) :
                              recheck_list(content)[m] = <<recheck_filters[x]>>}}

MaxScanPatches == 2

RecheckInit ==
    /\ git_builds = <<>>
    /\ series = <<>>
    /\ pc = "idle"
    /\ providers = <<"gap">>
    /\ pidx = 1
    /\ gen = GenInit
    /\ cur = <<>>
    /\ outbox = {}
    /\ notified = {}
    /\ call = [filters |-> <<>>, patch |-> None]

\* check_recheck_requests up to its loop: nothing to do without filters;
\* get_series_list raises or lists the patches of the open series.
StartRecheck ==
    /\ pc = "idle"
    /\ pc' = "recheck"
    /\ \E recheck_filters \in RecheckFilters, failed \in BOOLEAN,
          n \in 0..MaxScanPatches :
          /\ call' = [filters |-> recheck_filters, patch |-> None]
          /\ cur' = IF recheck_filters = <<>> \/ failed THEN <<>>
                    ELSE [k \in 1..n |-> 100000 + k]
    /\ outbox' = {}
    /\ notified' = {}
    /\ UNCHANGED <<git_builds, series, providers, pidx, gen>>

\* _check_patch_for_recheck on the next patch of the list.
RecheckPatch ==
    /\ pc = "recheck"
    /\ cur # <<>>
    /\ \E answer \in PatchAnswers :
          LET matched == {<<Head(cur), f>> :
                             f \in check_patch_for_recheck(answer, call.filters)}
          IN  /\ outbox' = matched
              /\ notified' = notified \cup matched
              /\ call' = [call EXCEPT !.patch = Some(answer)]
    /\ cur' = Tail(cur)
    /\ UNCHANGED <<git_builds, series, pc, providers, pidx, gen>>

EndRecheck ==
    /\ pc = "recheck"
    /\ cur = <<>>
    /\ pc' = "idle"
    /\ UNCHANGED <<git_builds, series, providers, pidx, gen, cur, outbox,
                   notified, call>>

RecheckNext ==
    \/ StartRecheck
    \/ RecheckPatch
    \/ EndRecheck

RecheckSpec == RecheckInit /\ [][RecheckNext]_vars

\* The targets of the directive a comment carries: the comment starts with
\* the directive, and the targets are the items of the rest of its line
\* between commas, with or without a blank after the comma.
DirectiveTargets(content) ==
    IF content = <<>> \/ content[1] # Directive THEN {}
    ELSE LET line == SplitAt(Tail(content), {"\n"})[1]
             items == SplitAt(line, {",", ", "})
         IN  {items[m] : m \in DOMAIN items}

\* C36: when the tracker has answered for a patch, the scan reports a
\* match for the patch and a configured filter name F exactly when the
\* patch is in none of the five terminal states and one of its comments
\* carries a Recheck-request: directive whose comma-separated target list
\* contains F; without filters the scan reports nothing.
C36_RecheckMatchExact ==
    /\ call.filters = <<>> => notified = {}
    /\ (pc = "recheck" /\ call.patch # None /\ call.patch[1].kind = "json"
        /\ call.patch[1].comments_kind = "json") =>
          LET answer == call.patch[1]
              comments == IF answer.comments_url = "url"
                          THEN answer.comments ELSE <<>>
          IN  \A f \in DOMAIN call.filters :
                 (\E match \in outbox : match[2] = call.filters[f])
                 <=> /\ answer.state \notin
                           {"superseded", "rejected", "accepted",
                            "changes-requested", "not-applicable"}
                     /\ \E n \in DOMAIN comments :
                           <<call.filters[f]>> \in DirectiveTargets(comments[n])

----------------------------------------------------------------------------
(* PatchworkMonitor.check_new_series with its timestamp file, against a     *)
(* tracker on which series are created as time goes by.  call holds the     *)
(* clock, the tracker's log of series-created events, last_check (the       *)
(* mtime of the timestamp file; 0 stands for the default of a day ago) and  *)
(* failed, the series whose get_series has raised; cur holds the events of  *)
(* the running pass that are still to be handled.                           *)

MaxClock == 5

DiscoveryInit ==
    /\ git_builds = <<>>
    /\ series = <<>>
    /\ pc = "idle"
    /\ providers = <<"gap">>
    /\ pidx = 1
    /\ gen = GenInit
    /\ cur = <<>>
    /\ outbox = None
    /\ notified = {}
    /\ call = [clock |-> 1, log |-> <<>>, last_check |-> 0, failed |-> {}]

\* A series is posted to the tracker, which logs the event.
SeriesCreated ==
    /\ call.clock < MaxClock
    /\ \E id \in StoreSeriesIds :
          /\ \A n \in DOMAIN call.log : call.log[n].series_id # id
          /\ call' = [call EXCEPT
                         !.log = Append(@, [series_id |-> id, at |-> call.clock]),
                         !.clock = @ + 1]
    /\ UNCHANGED <<git_builds, series, pc, providers, pidx, gen, cur, outbox,
                   notified>>

\* GET /api/events/?category=series-created&since=...: the logged events
\* that are not older than since.
get_series_events(log, since) ==
    IdsOf(SelectSeq(log, LAMBDA e : e.at >= since))

\* check_new_series up to its loop: _get_last_check_time, then
\* get_series_events; on a RequestException the pass returns.
StartDiscovery ==
    /\ pc = "idle"
    /\ \E failed \in BOOLEAN :
          IF failed
          THEN UNCHANGED <<pc, cur>>
          ELSE /\ pc' = "new"
               /\ cur' = get_series_events(call.log, call.last_check)
    /\ UNCHANGED <<git_builds, series, providers, pidx, gen, outbox, notified,
                   call>>

\* One event of the loop: get_series, then emit_series; a RequestException
\* goes on to the next event.
DiscoverStep ==
    /\ pc = "new"
    /\ cur # <<>>
    /\ \E answer \in TrackerAnswers :
          IF answer = "error"
          THEN /\ call' = [call EXCEPT !.failed = @ \cup {Head(cur)}]
               /\ UNCHANGED series
          ELSE /\ series' = emit_series(series, Head(cur), answer = "all")
               /\ UNCHANGED call
    /\ cur' = Tail(cur)
    /\ UNCHANGED <<git_builds, pc, providers, pidx, gen, outbox, notified>>

\* After the loop: self._update_timestamp().
EndDiscovery ==
    /\ pc = "new"
    /\ cur = <<>>
    /\ call.clock < MaxClock
    /\ pc' = "idle"
    /\ call' = [call EXCEPT !.last_check = call.clock, !.clock = @ + 1]
    /\ UNCHANGED <<git_builds, series, providers, pidx, gen, cur, outbox,
                   notified>>

DiscoveryNext ==
    \/ SeriesCreated
    \/ StartDiscovery
    \/ DiscoverStep
    \/ EndDiscovery

DiscoverySpec == DiscoveryInit /\ [][DiscoveryNext]_vars

\* C37: a series whose detail request has failed in a discovery pass and
\* that is not recorded is still covered by the next events request: its
\* series-created event is not older than last_check.
C37_WatermarkBehindFailedSeries ==
    \A n \in DOMAIN call.log :
        (/\ call.log[n].series_id \in call.failed
         /\ ~series_exists(series, pw_instance, call.log[n].series_id))
        => call.log[n].at >= call.last_check

----------------------------------------------------------------------------
(* Properties of repeated poll cycles.                                       *)

\* C38: a build leaves the polling of a provider (its sync flag for the
\* provider is set, so that get_unsynced_builds returns it no more) only
\* after an Outcome of that provider for the build was handed to the
\* notifier; so a build polled while its runs are in flight is still
\* polled, and reported, later.
C38_PolledUntilNotified ==
    \A k \in DOMAIN git_builds, n \in DOMAIN providers :
        (/\ sync_column(providers[n]) \in SchemaColumns
         /\ git_builds[k][sync_column(providers[n])] = 1)
        => \E key \in notified :
              /\ key[1] = providers[n]
              /\ key[2] = git_builds[k].series_id
              /\ key[3] = git_builds[k].patch_id

----------------------------------------------------------------------------
(* The two orchestrators on one store that holds builds and series of two   *)
(* projects: the poll cycle of the CI Monitor for pw_project, and, while a  *)
(* cycle is under way, the passes of the Monitor of pw_project, each pass   *)
(* as one step.  The dispatcher acts between cycles.                        *)

MaxSharedBuilds == 2
MaxSharedSeries == 2

SharedBuildInputs ==
    { [series_id |-> 1000, patch_id |-> 100001, repo_name |-> "owner/repo",
       project |-> "testproject", instance |-> pw_instance],
      [series_id |-> 1001, patch_id |-> 100101, repo_name |-> "owner/repo",
       project |-> "otherproject", instance |-> pw_instance] }

SharedSeriesInputs ==
    { [series_id |-> 1000, project |-> "testproject"],
      [series_id |-> 1001, project |-> "otherproject"] }

SharedInit ==
    /\ git_builds = <<>>
    /\ series = <<>>
    /\ pc = "idle"
    /\ providers \in ProviderConfigs
    /\ pidx = 1
    /\ gen = GenInit
    /\ cur = None
    /\ outbox = None
    /\ notified = {}
    /\ call = CallInit

SharedInsertBuild ==
    /\ pc = "idle"
    /\ Len(git_builds) < MaxSharedBuilds
    /\ \E b \in SharedBuildInputs :
          /\ \A k \in DOMAIN git_builds : git_builds[k].patch_id # b.patch_id
          /\ git_builds' = insert_build(git_builds, b)
    /\ outbox' = None
    /\ UNCHANGED <<series, pc, providers, pidx, gen, cur, notified, call>>

\* Series recorded by the Monitors of the two projects before the cycle.
SharedAddSeries ==
    /\ pc = "idle"
    /\ Len(series) < MaxSharedSeries
    /\ \E s \in SharedSeriesInputs :
          /\ ~series_exists(series, pw_instance, s.series_id)
          /\ series' = add_series(series, pw_instance, s.project, s.series_id,
                                  FALSE)
    /\ outbox' = None
    /\ UNCHANGED <<git_builds, pc, providers, pidx, gen, cur, notified, call>>

\* check_new_series with one series-created event of the project.
SharedCheckNew ==
    /\ pc # "idle"
    /\ Len(series) < MaxSharedSeries
    /\ \E answer \in TrackerAnswers :
          series' = check_new_series(series,
                        <<[series_id |-> 1000, answer |-> answer]>>)
    /\ UNCHANGED <<git_builds, pc, providers, pidx, gen, cur, outbox,
                   notified, call>>

SharedCheckCompleted ==
    /\ pc # "idle"
    /\ \E answers \in [AskedIds(get_uncompleted_series(series, pw_instance,
                                                        pw_project))
                         -> TrackerAnswers] :
          series' = check_completed_series(series, answers)
    /\ UNCHANGED <<git_builds, pc, providers, pidx, gen, cur, outbox,
                   notified, call>>

SharedCheckSuperseded ==
    /\ pc # "idle"
    /\ \E states \in [AskedIds(get_active_branches(series, pw_instance))
                        -> {"error", "new", "superseded"}] :
          series' = check_superseded_series(series, states)
    /\ UNCHANGED <<git_builds, pc, providers, pidx, gen, cur, outbox,
                   notified, call>>

SharedNext ==
    \/ SharedInsertBuild
    \/ SharedAddSeries
    \/ SetSeriesBranch
    \/ StartCycle
    \/ ScanProvider
    \/ ProviderStep
    \/ ProcessBuildResult
    \/ ProviderResume
    \/ GeneratorDone
    \/ EndCycle
    \/ SharedCheckNew
    \/ SharedCheckCompleted
    \/ SharedCheckSuperseded

SharedSpec == SharedInit /\ [][SharedNext]_vars

----------------------------------------------------------------------------
(* Frame properties of the orchestrators.                                    *)

\* A step of the CI Monitor: its position in the poll cycle changes.
CIMonitorStep ==
    <<pc, pidx, gen, cur, call>>' # <<pc, pidx, gen, cur, call>>

\* A step of the Monitor: a pass, run while a poll cycle is under way.
MonitorPassStep == pc # "idle" /\ ~CIMonitorStep

\* C39: no step of a get_build_results call with the project filter
\* pw_project changes a build row or a series row of another project, and
\* no Outcome is yielded for a build (for the Travis provider: a series)
\* of another project.
C39_OtherProjectsUntouched ==
    [][(pc \in {"gen", "yielded", "resume"} /\ CIMonitorStep) =>
          /\ \A k \in DOMAIN git_builds :
                git_builds[k].patchwork_project # pw_project
                   => git_builds'[k] = git_builds[k]
          /\ \A k \in DOMAIN series :
                series[k].series_project # pw_project
                   => series'[k] = series[k]
          /\ (pc' = "yielded" /\ pc # "yielded") =>
                IF ProviderName = "travis"
                THEN \A k \in DOMAIN series :
                        series[k].series_id = cur'[1].series_id
                           => series[k].series_project = pw_project
                ELSE \A k \in DOMAIN git_builds :
                        BuildKey(git_builds[k]) = BuildKey(cur'[1])
                           => git_builds[k].patchwork_project = pw_project]_vars

\* A call has gone through two rows, one of them of another project, and
\* has yielded for the other one; the row of the other project is as it
\* was put in the store.
C39_Witness ==
    /\ pc = "gen"
    /\ Len(gen.unsynced) = 2
    /\ gen.i > 2
    /\ call.yielded # {}
    /\ \/ /\ ProviderName = "travis"
          /\ \E k \in DOMAIN series :
                /\ series[k].series_project # pw_project
                /\ series[k].series_branch = BranchName(series[k].series_id)
       \/ /\ ProviderName # "travis"
          /\ \E k \in DOMAIN git_builds :
                /\ git_builds[k].patchwork_project # pw_project
                /\ \A col \in SchemaColumns : git_builds[k][col] = 0

====
